---- MODULE Spec2Model ----
(***************************************************************************)
(* ASAP Food Trailer: the dual-mode persistence facade                     *)
(* (services/database.py), the analytics aggregator                        *)
(* (services/analytics.py), the image processor                            *)
(* (services/image_processor.py) and the page-view middleware, the login   *)
(* endpoint and the admin dashboard of main.py.                            *)
(*                                                                         *)
(* Ten specifications share the variables below:                           *)
(*   Spec        the local-mode facade as a state machine of mutating      *)
(*               operations and single-record reads over the lazily loaded *)
(*               cache and the data file;                                  *)
(*   LogSpec     record_analytics on data files whose log is at the cap;   *)
(*   QuerySpec   one list query (get_trucks, get_most_viewed) applied to   *)
(*               each store content of the bounded pool;                   *)
(*   RemoteSpec  the firebase-mode branches of the vehicle operations over *)
(*               a Firestore collection;                                   *)
(*   AggSpec     aggregate_dashboard_data applied to bounded event lists;  *)
(*   WebSpec     the tracking middleware in front of the local facade;     *)
(*   BootSpec    construction of the database and auth services from       *)
(*               APP_MODE, then the facade in the mode that results;       *)
(*   TwoProcSpec two local-mode processes on one data file;                *)
(*   ImgSpec     one upload through process_image;                         *)
(*   LeadSpec    create_lead and the dashboard's lead list in both modes.  *)
(***************************************************************************)
EXTENDS Integers, Sequences, FiniteSets, TLC

VARIABLES
    data,       \* DatabaseService._data: NoData before the first access, else the cache
    file,       \* content of seed.json: NoFile when the file does not exist
    writes,     \* number of rewrites of the data file (_save_local_data calls)
    clock,      \* facade calls made so far: source of uuid4() and datetime.now() values
    last,       \* the last facade call: operation, arguments, return value, store before
    incBase,    \* vehicles as they were when the current run of increments began
    incCount,   \* per id, increment_views calls made in the current run
    aggIn,      \* aggregator input: events, days, today
    aggOut,     \* aggregator output, NoResult before the call
    aggPc,      \* "input" while events are collected, "done" after the call
    mode,       \* DatabaseService.mode: "local" or "firebase"
    fs,         \* the Firestore collections behind self.db, NoFirestore in local mode
    app_mode,   \* settings.APP_MODE, read from the environment when config is imported
    authMode,   \* AuthService.mode, "unset" before auth_service is constructed
    peer,       \* DatabaseService._data of a second worker process on the same data file
    img         \* image_processor: its two module flags and its last process_upload call

vars == <<data, file, writes, clock, last, incBase, incCount, aggIn, aggOut, aggPc, mode, fs, app_mode, authMode, peer, img>>
dbVars == <<data, file, writes, clock, last, incBase, incCount>>
aggVars == <<aggIn, aggOut, aggPc>>
fsVars == <<mode, fs, app_mode, authMode, peer, img>>

-----------------------------------------------------------------------------
(* Bounds *)

MaxOps == 4         \* facade calls in one behaviour
MaxStore == 3       \* length of a store content in QuerySpec
MaxLimit == 4       \* largest limit passed to get_most_viewed
MaxEvents == 2      \* events handed to the aggregator
MaxDays == 31       \* largest requested window

-----------------------------------------------------------------------------
(* Strings that the code inspects character by character are sequences of  *)
(* one-character strings.                                                  *)

LowerChar(c) ==
    CASE c = "A" -> "a"
      [] c = "B" -> "b"
      [] c = "C" -> "c"
      [] c = "F" -> "f"
      [] c = "G" -> "g"
      [] c = "O" -> "o"
      [] c = "T" -> "t"
      [] OTHER -> c

Lower(s) == [i \in 1..Len(s) |-> LowerChar(s[i])]

\* a string literal as the sequence of its characters
Chars(s) ==
    CASE s = "/" -> <<"/">>
      [] s = "/catalog" -> <<"/", "c", "a", "t", "a", "l", "o", "g">>
      [] s = "/api/leads" -> <<"/", "a", "p", "i", "/", "l", "e", "a", "d", "s">>
      [] s = "/api/leads/x" -> <<"/", "a", "p", "i", "/", "l", "e", "a", "d", "s", "/", "x">>
      [] s = "/admin" -> <<"/", "a", "d", "m", "i", "n">>
      [] s = "/apiary" -> <<"/", "a", "p", "i", "a", "r", "y">>
      [] s = "/assets/a" -> <<"/", "a", "s", "s", "e", "t", "s", "/", "a">>
      [] s = "/uploads/a" -> <<"/", "u", "p", "l", "o", "a", "d", "s", "/", "a">>
      [] s = "/favicon.ico" -> <<"/", "f", "a", "v", "i", "c", "o", "n", ".", "i", "c", "o">>
      [] s = "/assets" -> <<"/", "a", "s", "s", "e", "t", "s">>
      [] s = "/uploads" -> <<"/", "u", "p", "l", "o", "a", "d", "s">>
      [] s = "/api" -> <<"/", "a", "p", "i">>
      [] s = "/favicon" -> <<"/", "f", "a", "v", "i", "c", "o", "n">>
      [] s = "Taco" -> <<"T", "a", "c", "o">>
      [] s = "BBQ" -> <<"B", "B", "Q">>
      [] s = "cart" -> <<"c", "a", "r", "t">>
      [] s = "hot" -> <<"h", "o", "t">>
      [] s = "Cold" -> <<"C", "o", "l", "d">>
      [] s = "iOS Mobile" -> <<"i", "O", "S", " ", "M", "o", "b", "i", "l", "e">>
      [] s = "mobile" -> <<"m", "o", "b", "i", "l", "e">>
      [] s = "Mobile" -> <<"M", "o", "b", "i", "l", "e">>
      [] s = "Google" -> <<"G", "o", "o", "g", "l", "e">>
      [] s = "google" -> <<"g", "o", "o", "g", "l", "e">>
      [] s = "facebook" -> <<"f", "a", "c", "e", "b", "o", "o", "k">>
      [] s = "blog" -> <<"b", "l", "o", "g">>
      [] s = "direct" -> <<"d", "i", "r", "e", "c", "t">>

\* Python's `q in s` on strings
Contains(s, q) ==
    \E off \in 0..(Len(s) - Len(q)) :
        \A j \in 1..Len(q) : s[off + j] = q[j]

DigitVal(c) ==
    CASE c = "0" -> 0 [] c = "1" -> 1 [] c = "2" -> 2 [] c = "3" -> 3
      [] c = "4" -> 4 [] c = "5" -> 5 [] c = "6" -> 6 [] c = "7" -> 7
      [] c = "8" -> 8 [] c = "9" -> 9

RECURSIVE ParseDigits(_)
ParseDigits(s) ==
    IF s = <<>> THEN 0
    ELSE 10 * ParseDigits(SubSeq(s, 1, Len(s) - 1)) + DigitVal(s[Len(s)])

\* Values of a filters mapping: a key that is not in the mapping (dict.get gives
\* None), an int, a string compared as a whole, a string read character by character.
Absent == [t |-> "none"]
IntVal(n) == [t |-> "int", v |-> n]
StrVal(s) == [t |-> "str", v |-> s]
CharsVal(s) == [t |-> "chars", v |-> s]

\* Python truthiness of filters.get(key)
Truthy(x) ==
    CASE x.t = "none" -> FALSE
      [] x.t = "int" -> x.v # 0
      [] x.t = "str" -> x.v # ""
      [] x.t = "chars" -> x.v # <<>>

\* int(x) of an int or of a decimal string
PyInt(x) == IF x.t = "int" THEN x.v ELSE ParseDigits(x.v)

-----------------------------------------------------------------------------
(* Store contents *)

NoData == [none |-> TRUE]
NoFile == [absent |-> TRUE]
NoFirestore == [offline |-> TRUE]
NoImage == [unused |-> TRUE]

EmptyData == [trucks |-> <<>>, analytics |-> <<>>, leads |-> <<>>, testimonials |-> <<>>]

TruckA ==
    [id |-> 1, title |-> Chars("Taco"), slug |-> "taco", description |-> Chars("hot"), price |-> 5,
     category |-> "truck", condition |-> "new", usage |-> "sale",
     status |-> "available", featured |-> TRUE, views |-> 5, created_at |-> 0]

TruckB ==
    [id |-> 2, title |-> Chars("BBQ"), slug |-> "bbq", description |-> Chars("Cold"), price |-> 10,
     category |-> "trailer", condition |-> "used", usage |-> "rent",
     status |-> "rented", featured |-> FALSE, views |-> 5, created_at |-> 0]

TruckC ==
    [id |-> 3, title |-> Chars("cart"), slug |-> "taco", description |-> Chars("Taco"), price |-> 0,
     category |-> "truck", condition |-> "used", usage |-> "sale",
     status |-> "sold", featured |-> FALSE, views |-> 2, created_at |-> 0]

\* a seeded record without a view counter
TruckD ==
    [id |-> 4, title |-> Chars("Cold"), slug |-> "cold", description |-> Chars("BBQ"), price |-> 7,
     category |-> "trailer", condition |-> "new", usage |-> "rent",
     status |-> "available", featured |-> TRUE, created_at |-> 0]

\* records of the other three arrays of a seeded data file
SeedLead ==
    [id |-> 100, customer_name |-> "Ann", email |-> "ann@example.com", phone |-> "",
     truck_id |-> 1, message |-> "quote", date |-> 0]

SeedEvent ==
    [id |-> 200, page_path |-> <<"/">>, device_type |-> "mobile", source |-> "direct",
     location_city |-> "Houston", timestamp |-> [t |-> "iso", date |-> <<2024, 3, 1>>, zone |-> "Z"]]

SeedFile(ts) ==
    [trucks |-> ts, analytics |-> <<SeedEvent>>, leads |-> <<SeedLead>>,
     testimonials |-> <<[id |-> 300, author |-> "Bob", text |-> "great"]>>]

FirstFreshId == 10
MissingId == 9

\* uuid.uuid4(): a value no stored record carries yet
Uuid4(c) == FirstFreshId + c

\* datetime.now(timezone.utc).isoformat(), strictly after every seeded timestamp
NowStamp(c) == c + 1

-----------------------------------------------------------------------------
(* DatabaseService, local mode *)

\* _load_local_data: read the file on first access only, start empty when it is missing
LoadLocalData ==
    IF data = NoData
    THEN (IF file = NoFile THEN EmptyData ELSE file)
    ELSE data

Min(a, b) == IF a < b THEN a ELSE b
Max(a, b) == IF a > b THEN a ELSE b

\* dict.get(key, default)
Get(r, k, dflt) == IF k \in DOMAIN r THEN r[k] ELSE dflt

\* dict.update(other): keys of other overwrite or extend r
DictUpdate(r, other) ==
    [k \in (DOMAIN r) \cup (DOMAIN other) |-> IF k \in DOMAIN other THEN other[k] ELSE r[k]]

\* index of the first record with this id, 0 when there is none
FirstIndex(ts, id) ==
    IF \E i \in 1..Len(ts) : ts[i].id = id
    THEN CHOOSE i \in 1..Len(ts) : ts[i].id = id /\ \A j \in 1..(i - 1) : ts[j].id # id
    ELSE 0

NoRec == [missing |-> TRUE]
NoCall == [op |-> "none"]

\* ids a caller can name: those of stored vehicles and one that no vehicle has
Ids(ts) == {ts[i].id : i \in 1..Len(ts)} \cup {MissingId}

ZeroCount == [i \in 1..(FirstFreshId + MaxOps) |-> 0]

\* the stored vehicles as any operation sees them
CurTrucks == LoadLocalData.trucks

\* a save that writes the vehicles and leaves the other arrays empty
SaveTrucksOnly(d) == [trucks |-> d.trucks, analytics |-> <<>>, leads |-> <<>>, testimonials |-> <<>>]

\* _save_local_data: json.dump of the cache; the records hold only strings,
\* integers and booleans under string keys, which JSON writes and reads back unchanged
SaveLocalData(d) == d

\* form data of POST /api/trucks, and a caller that also sends generated fields
InputPlain ==
    [title |-> Chars("Taco"), slug |-> "taco", description |-> Chars("Cold"), price |-> 5,
     category |-> "truck", condition |-> "new", usage |-> "sale",
     status |-> "available", featured |-> FALSE]

InputWithGenerated ==
    [title |-> Chars("BBQ"), slug |-> "bbq", description |-> Chars("hot"), price |-> 10,
     category |-> "trailer", condition |-> "used", usage |-> "rent",
     status |-> "rented", featured |-> TRUE, id |-> 1, views |-> 9, created_at |-> 99]

TruckInputs == {InputPlain, InputWithGenerated}

\* JSON bodies of PUT /api/trucks/{id}
Partials ==
    {[status |-> "sold", note |-> "x"], [views |-> 3], [id |-> 2], [status |-> "reserved"]}

\* a create that leaves the view counter to the caller
GeneratedFieldsNoViews(c) == [id |-> Uuid4(c), created_at |-> NowStamp(c)]

\* the three assignments at the head of create_truck
GeneratedFields(c) == [id |-> Uuid4(c), created_at |-> NowStamp(c), views |-> 0]

\* a merge in which the stored value wins over the supplied one
MergeKeepExisting(truck, update_data) == DictUpdate(update_data, truck)

\* data["trucks"][i].update(update_data)
MergeFields(truck, update_data) == DictUpdate(truck, update_data)

\* a comparison that also reports a removal when nothing was removed
RemovedOrSame(original_len, new_len) == new_len <= original_len

\* len(data["trucks"]) < original_len
Removed(original_len, new_len) == new_len < original_len

\* an increment that adds two
BumpViewsTwice(truck) == DictUpdate(truck, [views |-> Get(truck, "views", 0) + 2])

\* an increment that restarts the counter
BumpViewsRestart(truck) == DictUpdate(truck, [views |-> 1])

\* truck["views"] = truck.get("views", 0) + 1
BumpViews(truck) == DictUpdate(truck, [views |-> Get(truck, "views", 0) + 1])

\* get_truck: first record with the id, or None
LookupTruck(ts, id) ==
    LET i == FirstIndex(ts, id)
    IN  IF i = 0 THEN [found |-> FALSE, rec |-> NoRec] ELSE [found |-> TRUE, rec |-> ts[i]]

\* datetime.now(timezone.utc).isoformat() as an event or lead timestamp
NowIso(c) == [t |-> "iso", date |-> <<2024, 3, 2 + c>>, zone |-> "+00:00"]

\* dict.setdefault(key, default): the dict with the key present
SetDefault(d, k, dflt) == IF k \in DOMAIN d THEN d ELSE (k :> dflt) @@ d

\* bodies of POST /api/leads
LeadInputs ==
    {[customer_name |-> "Cy", email |-> "cy@example.com", phone |-> "555",
      truck_id |-> 1, message |-> "price?"]}

\* events built by the tracking middleware
PageView ==
    [page_path |-> Chars("/"), device_type |-> "desktop", location_city |-> "Houston",
     source |-> "direct"]

EventInputs ==
    {PageView,
     [page_path |-> Chars("/catalog"), device_type |-> "mobile", location_city |-> "Houston",
      source |-> "google"],
     [page_path |-> Chars("/admin"), device_type |-> "desktop", location_city |-> "Houston",
      source |-> "referral"]}

AnalyticsCap == 10000
AnalyticsKeep == 10000

\* a truncation that keeps the oldest entries
TruncateLogOldest(events) ==
    IF Len(events) > AnalyticsCap THEN SubSeq(events, 1, AnalyticsKeep) ELSE events

\* if len(data["analytics"]) > 10000: data["analytics"] = data["analytics"][-10000:]
TruncateLog(events) ==
    IF Len(events) > AnalyticsCap
    THEN SubSeq(events, Max(1, Len(events) - AnalyticsKeep + 1), Len(events))
    ELSE events

\* a lead stored ahead of the earlier ones
PrependLead(leads, lead) == <<lead>> \o leads

\* data.setdefault("leads", []).append(lead_data)
AppendLead(leads, lead) == Append(leads, lead)

\* index of the last record with this slug, 0 when there is none
LastSlugIndex(ts, slug) ==
    IF \E i \in 1..Len(ts) : Get(ts[i], "slug", NoRec) = slug
    THEN CHOOSE i \in 1..Len(ts) :
            /\ Get(ts[i], "slug", NoRec) = slug
            /\ \A j \in (i + 1)..Len(ts) : Get(ts[j], "slug", NoRec) # slug
    ELSE 0

\* for truck in data["trucks"]: if truck.get("slug") == slug: return truck
FirstSlugIndex(ts, slug) ==
    IF \E i \in 1..Len(ts) : Get(ts[i], "slug", NoRec) = slug
    THEN CHOOSE i \in 1..Len(ts) :
            /\ Get(ts[i], "slug", NoRec) = slug
            /\ \A j \in 1..(i - 1) : Get(ts[j], "slug", NoRec) # slug
    ELSE 0

\* get_truck_by_slug: first record with the slug, or None
LookupSlug(ts, slug) ==
    LET i == FirstSlugIndex(ts, slug)
    IN  IF i = 0 THEN [found |-> FALSE, rec |-> NoRec] ELSE [found |-> TRUE, rec |-> ts[i]]

\* sum(1 for t in trucks if t["status"] == status)
CountStatus(trucks, status) ==
    Cardinality({i \in 1..Len(trucks) : trucks[i].status = status})

\* statistics whose rented figure repeats the sold one
FleetStatsSoldAsRented(trucks) ==
    [total |-> Len(trucks),
     available |-> CountStatus(trucks, "available"),
     rented |-> CountStatus(trucks, "sold"),
     sold |-> CountStatus(trucks, "sold")]

\* the dict returned by get_fleet_stats
FleetStats(trucks) ==
    [total |-> Len(trucks),
     available |-> CountStatus(trucks, "available"),
     rented |-> CountStatus(trucks, "rented"),
     sold |-> CountStatus(trucks, "sold")]

Init ==
    /\ data = NoData
    /\ file \in {SeedFile(<<TruckA, TruckB>>), SeedFile(<<TruckD>>), NoFile}
    /\ writes = 0
    /\ clock = 0
    /\ last = NoCall
    /\ incBase = (IF file = NoFile THEN <<>> ELSE file.trucks)
    /\ incCount = ZeroCount
    /\ aggIn = [none |-> TRUE]
    /\ aggOut = [none |-> TRUE]
    /\ aggPc = "off"
    /\ mode = "local"
    /\ fs = NoFirestore
    /\ app_mode = "local"
    /\ authMode = "local"
    /\ peer = NoData
    /\ img = NoImage

create_truck(truck_data) ==
    LET d == LoadLocalData
        truck == DictUpdate(truck_data, GeneratedFields(clock))
        d2 == [d EXCEPT !.trucks = Append(@, truck)]
    IN  /\ clock < MaxOps
        /\ mode = "local"
        /\ data' = d2
        /\ file' = SaveLocalData(d2)
        /\ writes' = writes + 1
        /\ clock' = clock + 1
        /\ last' = [op |-> "create_truck", arg |-> truck_data, ret |-> truck,
                    pre |-> d, preFile |-> file, preWrites |-> writes]
        /\ incBase' = d2.trucks
        /\ incCount' = ZeroCount
        /\ UNCHANGED <<aggVars, fsVars>>

update_truck(truck_id, update_data) ==
    LET d == LoadLocalData
        i == FirstIndex(d.trucks, truck_id)
        d2 == IF i = 0 THEN d ELSE [d EXCEPT !.trucks[i] = MergeFields(@, update_data)]
    IN  /\ clock < MaxOps
        /\ mode = "local"
        /\ clock' = clock + 1
        /\ data' = d2
        /\ file' = (IF i = 0 THEN file ELSE SaveLocalData(d2))
        /\ writes' = (IF i = 0 THEN writes ELSE writes + 1)
        /\ last' = [op |-> "update_truck", id |-> truck_id, arg |-> update_data,
                    ret |-> IF i = 0 THEN [found |-> FALSE, rec |-> NoRec]
                                     ELSE [found |-> TRUE, rec |-> d2.trucks[i]],
                    pre |-> d, preFile |-> file, preWrites |-> writes]
        /\ incBase' = d2.trucks
        /\ incCount' = ZeroCount
        /\ UNCHANGED <<aggVars, fsVars>>

delete_truck(truck_id) ==
    LET d == LoadLocalData
        kept == SelectSeq(d.trucks, LAMBDA t : t.id # truck_id)
        d2 == [d EXCEPT !.trucks = kept]
        removed == Removed(Len(d.trucks), Len(kept))
    IN  /\ clock < MaxOps
        /\ mode = "local"
        /\ clock' = clock + 1
        /\ data' = d2
        /\ file' = (IF removed THEN SaveLocalData(d2) ELSE file)
        /\ writes' = (IF removed THEN writes + 1 ELSE writes)
        /\ last' = [op |-> "delete_truck", id |-> truck_id, ret |-> removed,
                    pre |-> d, preFile |-> file, preWrites |-> writes]
        /\ incBase' = d2.trucks
        /\ incCount' = ZeroCount
        /\ UNCHANGED <<aggVars, fsVars>>

increment_views(truck_id) ==
    LET d == LoadLocalData
        i == FirstIndex(d.trucks, truck_id)
        d2 == IF i = 0 THEN d
              ELSE [d EXCEPT !.trucks[i] = BumpViews(@)]
    IN  /\ clock < MaxOps
        /\ mode = "local"
        /\ clock' = clock + 1
        /\ data' = d2
        /\ file' = (IF i = 0 THEN file ELSE SaveLocalData(d2))
        /\ writes' = (IF i = 0 THEN writes ELSE writes + 1)
        /\ last' = [op |-> "increment_views", id |-> truck_id,
                    pre |-> d, preFile |-> file, preWrites |-> writes]
        /\ incCount' = [incCount EXCEPT ![truck_id] = @ + 1]
        /\ UNCHANGED <<incBase, aggVars, fsVars>>

get_truck(truck_id) ==
    LET d == LoadLocalData
    IN  /\ clock < MaxOps
        /\ mode = "local"
        /\ clock' = clock + 1
        /\ data' = d
        /\ last' = [op |-> "get_truck", id |-> truck_id, ret |-> LookupTruck(d.trucks, truck_id),
                    pre |-> d, preFile |-> file, preWrites |-> writes,
                    prev |-> IF last.op = "create_truck"
                             THEN [op |-> "create_truck", arg |-> last.arg,
                                   ret |-> last.ret, pre |-> last.pre]
                             ELSE NoCall]
        /\ incBase' = d.trucks
        /\ incCount' = ZeroCount
        /\ UNCHANGED <<file, writes, aggVars, fsVars>>

get_truck_by_slug(slug) ==
    LET d == LoadLocalData
    IN  /\ clock < MaxOps
        /\ mode = "local"
        /\ clock' = clock + 1
        /\ data' = d
        /\ last' = [op |-> "get_truck_by_slug", arg |-> slug,
                    ret |-> LookupSlug(d.trucks, slug),
                    pre |-> d, preFile |-> file, preWrites |-> writes]
        /\ incBase' = d.trucks
        /\ incCount' = ZeroCount
        /\ UNCHANGED <<file, writes, aggVars, fsVars>>

get_fleet_stats ==
    LET d == LoadLocalData
    IN  /\ clock < MaxOps
        /\ mode = "local"
        /\ clock' = clock + 1
        /\ data' = d
        /\ last' = [op |-> "get_fleet_stats", ret |-> FleetStats(d.trucks),
                    pre |-> d, preFile |-> file, preWrites |-> writes]
        /\ incBase' = d.trucks
        /\ incCount' = ZeroCount
        /\ UNCHANGED <<file, writes, aggVars, fsVars>>

create_lead(lead_data) ==
    LET d == SetDefault(LoadLocalData, "leads", <<>>)
        lead == DictUpdate(lead_data, [id |-> Uuid4(clock), date |-> NowIso(clock)])
        d2 == [d EXCEPT !.leads = AppendLead(@, lead)]
    IN  /\ clock < MaxOps
        /\ mode = "local"
        /\ clock' = clock + 1
        /\ data' = d2
        /\ file' = SaveLocalData(d2)
        /\ writes' = writes + 1
        /\ last' = [op |-> "create_lead", arg |-> lead_data, ret |-> lead,
                    pre |-> LoadLocalData, preFile |-> file, preWrites |-> writes]
        /\ incBase' = d2.trucks
        /\ incCount' = ZeroCount
        /\ UNCHANGED <<aggVars, fsVars>>

\* event["id"] = str(uuid.uuid4()); event["timestamp"] = datetime.now(...).isoformat()
StampEvent(event_data, c) ==
    DictUpdate(event_data, [id |-> Uuid4(c), timestamp |-> NowIso(c)])

\* the cache after the append and the truncation of record_analytics
StoreEvent(d, event) ==
    [SetDefault(d, "analytics", <<>>) EXCEPT !.analytics = TruncateLog(Append(@, event))]

record_analytics(event_data) ==
    LET event == StampEvent(event_data, clock)
        d2 == StoreEvent(LoadLocalData, event)
    IN  /\ clock < MaxOps
        /\ mode = "local"
        /\ clock' = clock + 1
        /\ data' = d2
        /\ file' = SaveLocalData(d2)
        /\ writes' = writes + 1
        /\ last' = [op |-> "record_analytics", arg |-> event_data, event |-> event,
                    pre |-> LoadLocalData, preFile |-> file, preWrites |-> writes]
        /\ incBase' = d2.trucks
        /\ incCount' = ZeroCount
        /\ UNCHANGED <<aggVars, fsVars>>

Next ==
    \/ \E truck_data \in TruckInputs : create_truck(truck_data)
    \/ \E truck_id \in Ids(CurTrucks), update_data \in Partials :
            update_truck(truck_id, update_data)
    \/ \E truck_id \in Ids(CurTrucks) : delete_truck(truck_id)
    \/ \E truck_id \in Ids(CurTrucks) : increment_views(truck_id)
    \/ \E truck_id \in Ids(CurTrucks) : get_truck(truck_id)
    \/ \E slug \in {"taco", "bbq", "none"} : get_truck_by_slug(slug)
    \/ get_fleet_stats
    \/ \E lead_data \in LeadInputs : create_lead(lead_data)
    \/ record_analytics(PageView)

Spec == Init /\ [][Next]_vars

-----------------------------------------------------------------------------
(* Properties of the facade, checked under Spec *)

StoredIds(ts) == {ts[i].id : i \in 1..Len(ts)}

GeneratedKeys == {"id", "created_at", "views"}

\* C2: create_truck(data) followed by get_truck(returned id) returns the input's
\* fields plus a generated id, a creation timestamp and views = 0, whatever id,
\* created_at or views the input carried, and the store has grown by exactly one record.
C2_CreateThenGet ==
    (last.op = "get_truck" /\ last.prev.op = "create_truck" /\ last.id = last.prev.ret.id) =>
        LET input == last.prev.arg
            before == last.prev.pre.trucks
            rec == last.ret.rec
        IN  /\ last.ret.found
            /\ DOMAIN rec = (DOMAIN input) \cup GeneratedKeys
            /\ \A k \in (DOMAIN input) \ GeneratedKeys : rec[k] = input[k]
            /\ rec.views = 0
            /\ rec.id \notin StoredIds(before)
            /\ "id" \in DOMAIN input => rec.id # input.id
            /\ "created_at" \in DOMAIN input => rec.created_at # input.created_at
            /\ \A i \in 1..Len(before) : rec.created_at > before[i].created_at
            /\ Len(CurTrucks) = Len(before) + 1
            /\ SubSeq(CurTrucks, 1, Len(before)) = before

C2_Witness ==
    /\ last.op = "get_truck"
    /\ last.prev.op = "create_truck"
    /\ last.id = last.prev.ret.id
    /\ last.prev.arg = InputWithGenerated
    /\ Len(last.prev.pre.trucks) > 0

\* C3: after N sequential increment_views(id) calls the first vehicle with that id
\* has a view count exactly N greater than before, every other record is unchanged,
\* and increments on an id that no vehicle has change nothing.
C3_IncrementsAdd ==
    /\ Len(CurTrucks) = Len(incBase)
    /\ \A i \in 1..Len(incBase) :
        LET was == incBase[i]
            n == incCount[was.id]
        IN  IF FirstIndex(incBase, was.id) = i /\ n > 0
            THEN /\ CurTrucks[i].views = Get(was, "views", 0) + n
                 /\ DOMAIN CurTrucks[i] = (DOMAIN was) \cup {"views"}
                 /\ \A k \in (DOMAIN was) \ {"views"} : CurTrucks[i][k] = was[k]
            ELSE CurTrucks[i] = was

C3_Witness ==
    \E i \in 1..Len(incBase) :
        /\ incCount[incBase[i].id] = MaxOps
        /\ incCount[MissingId] = 0
        /\ Len(incBase) > 1

C3_WitnessMissing == incCount[MissingId] > 0 /\ Len(incBase) > 0

\* C4: delete_truck(id) for an id that no stored vehicle has returns false and leaves
\* vehicles, leads, events and testimonials as they were, without rewriting the file.
C4_DeleteMissing ==
    (last.op = "delete_truck" /\ last.id \notin StoredIds(last.pre.trucks)) =>
        /\ last.ret = FALSE
        /\ data = last.pre
        /\ file = last.preFile
        /\ writes = last.preWrites

C4_Witness ==
    /\ last.op = "delete_truck"
    /\ last.id \notin StoredIds(last.pre.trucks)
    /\ Len(last.pre.trucks) > 1
    /\ last.preWrites > 0

\* C5: update_truck(id, partial) on an existing id sets exactly the keys of partial
\* on the first record with that id, leaves its other fields and every other record
\* unchanged and returns the updated record; on an id not in the store it returns
\* None and leaves the store and the data file unchanged.
C5_UpdateFrame ==
    last.op = "update_truck" =>
        LET before == last.pre.trucks
            i == FirstIndex(before, last.id)
        IN  IF i # 0
            THEN /\ last.ret.found
                 /\ Len(data.trucks) = Len(before)
                 /\ \A j \in 1..Len(before) : j # i => data.trucks[j] = before[j]
                 /\ DOMAIN data.trucks[i] = (DOMAIN before[i]) \cup (DOMAIN last.arg)
                 /\ \A k \in DOMAIN last.arg : data.trucks[i][k] = last.arg[k]
                 /\ \A k \in (DOMAIN before[i]) \ (DOMAIN last.arg) :
                        data.trucks[i][k] = before[i][k]
                 /\ last.ret.rec = data.trucks[i]
                 /\ data.leads = last.pre.leads
                 /\ data.analytics = last.pre.analytics
                 /\ data.testimonials = last.pre.testimonials
            ELSE /\ ~last.ret.found
                 /\ data = last.pre
                 /\ file = last.preFile
                 /\ writes = last.preWrites

C5_Witness ==
    /\ last.op = "update_truck"
    /\ last.ret.found
    /\ last.arg = [status |-> "sold", note |-> "x"]
    /\ Len(last.pre.trucks) > 1

C5_WitnessMissing ==
    /\ last.op = "update_truck"
    /\ ~last.ret.found
    /\ Len(last.pre.trucks) > 0

\* C12: over every sequence of facade operations (create, update with any partial
\* data, delete, increment) the id of a stored vehicle never changes.
C12_IdNeverChanges ==
    LET before == IF last.op = "none" THEN <<>> ELSE last.pre.trucks
        after == data.trucks
    IN  /\ last.op \in {"update_truck", "increment_views"} =>
            /\ Len(after) = Len(before)
            /\ \A i \in 1..Len(before) : after[i].id = before[i].id
        /\ last.op = "create_truck" =>
            \A i \in 1..Len(before) : after[i].id = before[i].id
        /\ last.op = "delete_truck" =>
            /\ Len(after) <= Len(before)
            /\ \A i \in 1..Len(after) : \E j \in i..Len(before) : after[i] = before[j]

\* C13: a vehicle's view counter is 0 on creation and no facade operation
\* (create, update with any partial data, increment) ever lowers it.
C13_ViewsNeverDecrease ==
    LET before == IF last.op = "none" THEN <<>> ELSE last.pre.trucks
        after == data.trucks
    IN  /\ last.op = "create_truck" =>
            /\ after[Len(after)].views = 0
            /\ \A i \in 1..Len(before) : after[i] = before[i]
        /\ last.op \in {"update_truck", "increment_views"} =>
            \A i \in 1..Len(before) :
                Get(after[i], "views", 0) >= Get(before[i], "views", 0)

\* C15: the lead list is append-only: the list before any facade operation is a
\* prefix of the list after it, the earlier leads unchanged.
C15_LeadsAppendOnly ==
    last.op # "none" =>
        /\ Len(last.pre.leads) <= Len(data.leads)
        /\ \A i \in 1..Len(last.pre.leads) : data.leads[i] = last.pre.leads[i]
        /\ last.op = "create_lead" =>
            /\ Len(data.leads) = Len(last.pre.leads) + 1
            /\ data.leads[Len(data.leads)] = last.ret

C15_Witness ==
    /\ last.op = "create_lead"
    /\ Len(last.pre.leads) >= 2
    /\ last.pre.leads[1] = SeedLead
    /\ data.leads[Len(data.leads)].id = last.ret.id

\* positions of the stored vehicles that carry the slug
WithSlug(ts, slug) == {i \in 1..Len(ts) : "slug" \in DOMAIN ts[i] /\ ts[i].slug = slug}

\* C18: get_truck_by_slug returns the earliest-inserted stored vehicle with the
\* slug, None when no vehicle has it; a create with a slug already in use is
\* accepted and leaves the vehicle that the lookup returns unchanged.
C18_SlugFirstMatch ==
    /\ last.op = "get_truck_by_slug" =>
        LET ts == last.pre.trucks
            hits == WithSlug(ts, last.arg)
        IN  /\ hits = {} => ~last.ret.found
            /\ hits # {} =>
                /\ last.ret.found
                /\ \E i \in hits : last.ret.rec = ts[i] /\ \A j \in hits : i <= j
    /\ last.op = "create_truck" =>
        LET ts == last.pre.trucks
            hits == WithSlug(ts, last.arg.slug)
        IN  /\ Len(data.trucks) = Len(ts) + 1
            /\ data.trucks[Len(data.trucks)].slug = last.arg.slug
            /\ hits # {} =>
                \E i \in hits :
                    /\ \A j \in hits : i <= j
                    /\ data.trucks[i] = ts[i]
                    /\ \A j \in 1..(i - 1) : data.trucks[j] = ts[j]

C18_Witness ==
    /\ last.op = "get_truck_by_slug"
    /\ last.arg = "taco"
    /\ Cardinality(WithSlug(last.pre.trucks, "taco")) >= 2
    /\ last.ret.found
    /\ last.ret.rec = TruckA
    /\ \E i \in WithSlug(last.pre.trucks, "taco") : last.pre.trucks[i].id >= FirstFreshId

StatusEnum == {"available", "rented", "sold"}

\* C19: get_fleet_stats returns total = number of stored vehicles and, per status,
\* the number of vehicles with that status, so available + rented + sold <= total,
\* with equality when every stored status is one of the three.
C19_FleetStats ==
    last.op = "get_fleet_stats" =>
        LET ts == last.pre.trucks
            With(st) == Cardinality({i \in 1..Len(ts) : ts[i].status = st})
            r == last.ret
        IN  /\ r.total = Len(ts)
            /\ r.available = With("available")
            /\ r.rented = With("rented")
            /\ r.sold = With("sold")
            /\ r.available + r.rented + r.sold <= r.total
            /\ (\A i \in 1..Len(ts) : ts[i].status \in StatusEnum) =>
                    r.available + r.rented + r.sold = r.total

C19_Witness ==
    /\ last.op = "get_fleet_stats"
    /\ last.ret.total = 3
    /\ last.ret.rented = 1
    /\ last.ret.sold = 0
    /\ last.ret.available + last.ret.rented + last.ret.sold = 2
    /\ \E i \in 1..3 : last.pre.trucks[i].status = "reserved"

\* the last call was a mutating operation that took effect
TookEffect ==
    CASE last.op \in {"create_truck", "create_lead", "record_analytics"} -> TRUE
      [] last.op = "update_truck" -> last.ret.found
      [] last.op = "delete_truck" -> last.ret
      [] last.op = "increment_views" -> FirstIndex(last.pre.trucks, last.id) # 0
      [] OTHER -> FALSE

\* C23: in local mode with one process, when a mutating operation that took
\* effect returns, the file holds exactly the cache, all four arrays, written
\* by that one call; and the file is read on the first access only: once the
\* cache is loaded it is never dropped and every later call works on it.
C23_FileMirrorsCache ==
    /\ [](TookEffect =>
            /\ file = data
            /\ {"trucks", "analytics", "leads", "testimonials"} \subseteq DOMAIN file
            /\ writes = last.preWrites + 1)
    /\ [][data # NoData => (data' # NoData /\ last'.pre = data)]_vars

C23_Witness ==
    /\ last.op = "increment_views"
    /\ TookEffect
    /\ writes = 3
    /\ last.preFile # file
    /\ Len(file.analytics) = 2
    /\ Len(file.leads) = 2

-----------------------------------------------------------------------------
(* The analytics log at its cap: record_analytics applied to data files     *)
(* whose log is empty, one short of the cap, or at the cap.                 *)

\* a log of n stored events, oldest first
LongLog(n) == [i \in 1..n |-> [SeedEvent EXCEPT !.id = 1000 + i]]

LogInit ==
    /\ data = NoData
    /\ file \in {[trucks |-> <<TruckA>>, analytics |-> LongLog(n), leads |-> <<SeedLead>>,
                  testimonials |-> <<>>] : n \in {0, AnalyticsCap - 1, AnalyticsCap}}
    /\ writes = 0
    /\ clock = 0
    /\ last = NoCall
    /\ incBase = <<TruckA>>
    /\ incCount = ZeroCount
    /\ aggIn = [none |-> TRUE]
    /\ aggOut = [none |-> TRUE]
    /\ aggPc = "off"
    /\ mode = "local"
    /\ fs = NoFirestore
    /\ app_mode = "local"
    /\ authMode = "local"
    /\ peer = NoData
    /\ img = NoImage

LogNext == \E event_data \in EventInputs : record_analytics(event_data)

LogSpec == LogInit /\ [][LogNext]_vars

\* C14: after every record_analytics call the retained list has at most 10,000
\* entries, ends with the event just recorded, and is the last min(10000, n + 1)
\* entries of the previous list followed by the new event, in the same order.
C14_LogCapped ==
    last.op = "record_analytics" =>
        LET all == Append(last.pre.analytics, last.event)
            now == data.analytics
            k == Min(10000, Len(all))
        IN  /\ Len(now) <= 10000
            /\ Len(now) = k
            /\ now[Len(now)] = last.event
            /\ last.event.page_path = last.arg.page_path
            /\ \A i \in 1..k : now[i] = all[Len(all) - k + i]

C14_Witness ==
    /\ last.op = "record_analytics"
    /\ Len(last.pre.analytics) = 10000
    /\ Len(data.analytics) = 10000
    /\ data.analytics[1] = last.pre.analytics[2]
    /\ data.analytics[10000] = last.event

-----------------------------------------------------------------------------
(* List queries *)

\* seq[:n]
SliceTo(seq, n) ==
    IF n >= 0 THEN SubSeq(seq, 1, Min(n, Len(seq)))
    ELSE SubSeq(seq, 1, Max(Len(seq) + n, 0))

Reverse(seq) == [i \in 1..Len(seq) |-> seq[Len(seq) + 1 - i]]

\* filters = None
NoFilters == [none |-> TRUE]

FilterKeys == {"category", "condition", "usage", "status", "min_price", "max_price", "search"}

\* `if filters:` is false for None and for the empty mapping
FiltersTruthy(filters) ==
    /\ filters # NoFilters
    /\ \E k \in FilterKeys : filters[k] # Absent

\* the local branch of get_trucks: each list comprehension runs only when
\* filters.get(key) is truthy
GetTrucks(trucks, filters) ==
    IF ~FiltersTruthy(filters) THEN trucks
    ELSE
        LET t1 == IF Truthy(filters.category)
                  THEN SelectSeq(trucks, LAMBDA t : t.category = filters.category.v)
                  ELSE trucks
            t2 == IF Truthy(filters.condition)
                  THEN SelectSeq(t1, LAMBDA t : t.condition = filters.condition.v)
                  ELSE t1
            t3 == IF Truthy(filters.usage)
                  THEN SelectSeq(t2, LAMBDA t : t.usage = filters.usage.v)
                  ELSE t2
            t4 == IF Truthy(filters.status)
                  THEN SelectSeq(t3, LAMBDA t : t.status = filters.status.v)
                  ELSE t3
            t5 == IF Truthy(filters.min_price)
                  THEN SelectSeq(t4, LAMBDA t : t.price >= PyInt(filters.min_price))
                  ELSE t4
            t6 == IF Truthy(filters.max_price)
                  THEN SelectSeq(t5, LAMBDA t : t.price <= PyInt(filters.max_price))
                  ELSE t5
            t7 == IF Truthy(filters.search)
                  THEN SelectSeq(t6,
                         LAMBDA t : \/ Contains(Lower(t.title), Lower(filters.search.v))
                                    \/ Contains(Lower(t.description), Lower(filters.search.v)))
                  ELSE t6
        IN  t7

ViewsKey(t) == Get(t, "views", 0)

\* an insertion that puts x before the elements with an equal key
InsertBeforeEqual(sorted, x) ==
    LET n == Cardinality({i \in 1..Len(sorted) : ViewsKey(sorted[i]) < ViewsKey(x)})
    IN  SubSeq(sorted, 1, n) \o <<x>> \o SubSeq(sorted, n + 1, Len(sorted))

\* stable insertion into an ascending list: x goes after every element whose key is <= its own
InsertAscending(sorted, x) ==
    LET n == Cardinality({i \in 1..Len(sorted) : ViewsKey(sorted[i]) <= ViewsKey(x)})
    IN  SubSeq(sorted, 1, n) \o <<x>> \o SubSeq(sorted, n + 1, Len(sorted))

RECURSIVE SortAscending(_)
SortAscending(seq) ==
    IF seq = <<>> THEN <<>>
    ELSE InsertAscending(SortAscending(SubSeq(seq, 1, Len(seq) - 1)), seq[Len(seq)])

\* sorted(trucks, key=views, reverse=True): list.sort reverses, sorts stably, reverses back
SortedByViewsDesc(trucks) == Reverse(SortAscending(Reverse(trucks)))

\* the local branch of get_most_viewed
GetMostViewed(trucks, limit) == SliceTo(SortedByViewsDesc(trucks), limit)

\* sequences over S without repetition, of length at most n
InjectiveSeqs(S, n) ==
    UNION {{q \in [1..k -> S] : \A i, j \in 1..k : i # j => q[i] # q[j]} : k \in 0..n}

QueryStores == {SeedFile(ts) : ts \in InjectiveSeqs({TruckA, TruckB, TruckC, TruckD}, MaxStore)} \cup {NoFile}

FilterChoices ==
    {[category |-> c, condition |-> co, usage |-> u, status |-> st,
      min_price |-> lo, max_price |-> hi, search |-> q] :
        c \in {Absent, StrVal("truck"), StrVal("trailer")},
        co \in {Absent, StrVal("used")},
        u \in {Absent, StrVal("rent")},
        st \in {Absent, StrVal("available")},
        lo \in {Absent, IntVal(0), CharsVal(<<"5">>), IntVal(7)},
        hi \in {Absent, IntVal(0), CharsVal(<<"7">>), CharsVal(<<"1", "0">>)},
        q \in {Absent, CharsVal(<<>>), CharsVal(<<"c", "O">>), CharsVal(<<"T", "A", "C", "O">>)}}
    \cup {NoFilters}

QueryInit ==
    /\ data = NoData
    /\ file \in QueryStores
    /\ writes = 0
    /\ clock = 0
    /\ last = NoCall
    /\ incBase = <<>>
    /\ incCount = ZeroCount
    /\ aggIn = [none |-> TRUE]
    /\ aggOut = [none |-> TRUE]
    /\ aggPc = "off"
    /\ mode = "local"
    /\ fs = NoFirestore
    /\ app_mode = "local"
    /\ authMode = "local"
    /\ peer = NoData
    /\ img = NoImage

get_trucks(filters) ==
    LET d == LoadLocalData
    IN  /\ last = NoCall
        /\ data' = d
        /\ last' = [op |-> "get_trucks", arg |-> filters, ret |-> GetTrucks(d.trucks, filters),
                    pre |-> d, preFile |-> file, preWrites |-> writes]
        /\ UNCHANGED <<file, writes, clock, incBase, incCount, aggVars, fsVars>>

get_most_viewed(limit) ==
    LET d == LoadLocalData
    IN  /\ last = NoCall
        /\ data' = d
        /\ last' = [op |-> "get_most_viewed", arg |-> limit,
                    ret |-> GetMostViewed(d.trucks, limit),
                    pre |-> d, preFile |-> file, preWrites |-> writes]
        /\ UNCHANGED <<file, writes, clock, incBase, incCount, aggVars, fsVars>>

QueryNext ==
    \/ \E filters \in FilterChoices : get_trucks(filters)
    \/ \E limit \in 0..MaxLimit : get_most_viewed(limit)

QuerySpec == QueryInit /\ [][QueryNext]_vars

-----------------------------------------------------------------------------
(* Properties of the list queries, checked under QuerySpec *)

Supplied(filters, k) == filters # NoFilters /\ filters[k] # Absent

\* every predicate of a supplied key holds of t
SatisfiesSupplied(t, f) ==
    /\ Supplied(f, "category") => t.category = f.category.v
    /\ Supplied(f, "condition") => t.condition = f.condition.v
    /\ Supplied(f, "usage") => t.usage = f.usage.v
    /\ Supplied(f, "status") => t.status = f.status.v
    /\ Supplied(f, "min_price") => PyInt(f.min_price) <= t.price
    /\ Supplied(f, "max_price") => t.price <= PyInt(f.max_price)
    /\ Supplied(f, "search") =>
          \/ Contains(Lower(t.title), Lower(f.search.v))
          \/ Contains(Lower(t.description), Lower(f.search.v))

\* C1: get_trucks(filters) returns exactly the records of the unfiltered list that
\* satisfy the predicate of every supplied filter key, in the unfiltered list's order,
\* and the full list when no filter is supplied.
C1_FilterExact ==
    last.op = "get_trucks" =>
        last.ret = SelectSeq(last.pre.trucks, LAMBDA t : SatisfiesSupplied(t, last.arg))

\* position that record i of the store takes when ordered by views descending,
\* records with equal views in store order
RankByViews(ts, i) ==
    1 + Cardinality({j \in 1..Len(ts) :
            \/ ViewsKey(ts[j]) > ViewsKey(ts[i])
            \/ ViewsKey(ts[j]) = ViewsKey(ts[i]) /\ j < i})

\* C6: get_most_viewed(limit) returns the first `limit` vehicles of the store ordered
\* by view count descending, equal view counts in store order, and leaves the store's
\* own order as it was.
C6_MostViewedStable ==
    last.op = "get_most_viewed" =>
        LET ts == last.pre.trucks
        IN  /\ Len(last.ret) = Min(last.arg, Len(ts))
            /\ \A i \in 1..Len(ts) :
                  RankByViews(ts, i) <= last.arg => last.ret[RankByViews(ts, i)] = ts[i]
            /\ CurTrucks = ts
            /\ file = last.preFile

\* views [5,5,2] with limit 2
C6_Witness ==
    /\ last.op = "get_most_viewed"
    /\ last.arg = 2
    /\ last.pre.trucks = <<TruckB, TruckA, TruckC>>
    /\ last.ret = <<TruckB, TruckA>>

-----------------------------------------------------------------------------
(* DatabaseService, firebase mode: the "trucks" collection is a sequence of *)
(* documents in order of document name, the order in which stream() yields  *)
(* them when the query has no order_by.                                     *)

\* {"id": doc.id, **doc.to_dict()}: a stored "id" field wins over the document name
DocDict(doc) == DictUpdate([id |-> doc.name], doc.fields)

DocDicts(docs) == [i \in 1..Len(docs) |-> DocDict(docs[i])]

\* document(name).get().exists
DocExists(docs, name) == \E i \in 1..Len(docs) : docs[i].name = name

DocIndex(docs, name) == CHOOSE i \in 1..Len(docs) : docs[i].name = name

\* document(name).set(fields): create the document or replace it
SetDoc(docs, name, fields) ==
    SelectSeq(docs, LAMBDA x : x.name < name)
        \o <<[name |-> name, fields |-> fields]>>
        \o SelectSeq(docs, LAMBDA x : x.name > name)

\* document(name).delete(): succeeds whether or not the document exists
DeleteDoc(docs, name) == SelectSeq(docs, LAMBDA x : x.name # name)

\* where(field, "==", value): documents that have the field with that value
Where(docs, field, value) ==
    SelectSeq(docs, LAMBDA x : field \in DOMAIN x.fields /\ x.fields[field] = value)

\* the Firestore branch of get_trucks: a where() per truthy enum filter, nothing
\* for min_price, max_price and search
FirestoreTrucks(docs, filters) ==
    IF ~FiltersTruthy(filters) THEN DocDicts(docs)
    ELSE
        LET r1 == IF Truthy(filters.category)
                  THEN Where(docs, "category", filters.category.v) ELSE docs
            r2 == IF Truthy(filters.condition)
                  THEN Where(r1, "condition", filters.condition.v) ELSE r1
            r3 == IF Truthy(filters.usage)
                  THEN Where(r2, "usage", filters.usage.v) ELSE r2
            r4 == IF Truthy(filters.status)
                  THEN Where(r3, "status", filters.status.v) ELSE r3
        IN  DocDicts(r4)

\* collections written by create_truck: each vehicle under its id as document name
RemoteStores ==
    {[trucks |-> [i \in 1..Len(ts) |-> [name |-> ts[i].id, fields |-> ts[i]]],
      leads |-> <<>>, analytics |-> <<>>] :
        ts \in {<<>>, <<TruckA, TruckB>>, <<TruckA, TruckC, TruckD>>}}

\* query strings of /catalog and /api/trucks
RemoteFilterChoices ==
    LET NoFilter == [k \in FilterKeys |-> Absent]
    IN  {NoFilters,
         NoFilter,
         [NoFilter EXCEPT !.category = StrVal("truck")],
         [NoFilter EXCEPT !.status = StrVal("available")],
         [NoFilter EXCEPT !.condition = StrVal("used"), !.usage = StrVal("rent")],
         [NoFilter EXCEPT !.min_price = CharsVal(<<"6">>)],
         [NoFilter EXCEPT !.max_price = CharsVal(<<"6">>)],
         [NoFilter EXCEPT !.search = CharsVal(<<"c", "O">>)],
         [NoFilter EXCEPT !.category = StrVal("truck"), !.max_price = CharsVal(<<"4">>)]}

\* names a caller can pass: those of stored documents and one that no document has
DocNames == {fs.trucks[i].name : i \in 1..Len(fs.trucks)} \cup {MissingId}

RemoteInit ==
    /\ data = NoData
    /\ file = NoFile
    /\ writes = 0
    /\ clock = 0
    /\ last = NoCall
    /\ incBase = <<>>
    /\ incCount = ZeroCount
    /\ aggIn = [none |-> TRUE]
    /\ aggOut = [none |-> TRUE]
    /\ aggPc = "off"
    /\ mode = "firebase"
    /\ fs \in RemoteStores
    /\ app_mode = "firebase"
    /\ authMode = "firebase"
    /\ peer = NoData
    /\ img = NoImage

create_truck_firestore(truck_data) ==
    LET truck == DictUpdate(truck_data, GeneratedFields(clock))
    IN  /\ clock < MaxOps
        /\ mode # "local"
        /\ clock' = clock + 1
        /\ fs' = [fs EXCEPT !.trucks = SetDoc(@, truck.id, truck)]
        /\ last' = [op |-> "create_truck", arg |-> truck_data, ret |-> truck,
                    pre |-> [trucks |-> DocDicts(fs.trucks)]]
        /\ UNCHANGED <<data, file, writes, incBase, incCount, mode, app_mode, authMode, peer, img, aggVars>>

update_truck_firestore(truck_id, update_data) ==
    LET exists == DocExists(fs.trucks, truck_id)
        i == DocIndex(fs.trucks, truck_id)
        docs == IF exists
                THEN [fs.trucks EXCEPT ![i].fields = MergeFields(@, update_data)]
                ELSE fs.trucks
    IN  /\ clock < MaxOps
        /\ mode # "local"
        /\ clock' = clock + 1
        /\ fs' = [fs EXCEPT !.trucks = docs]
        /\ last' = [op |-> "update_truck", id |-> truck_id, arg |-> update_data,
                    ret |-> IF exists
                            THEN [raised |-> FALSE,
                                  rec |-> DictUpdate([id |-> truck_id], docs[i].fields)]
                            ELSE [raised |-> TRUE, rec |-> NoRec],
                    pre |-> [trucks |-> DocDicts(fs.trucks)]]
        /\ UNCHANGED <<data, file, writes, incBase, incCount, mode, app_mode, authMode, peer, img, aggVars>>

delete_truck_firestore(truck_id) ==
    /\ clock < MaxOps
    /\ mode # "local"
    /\ clock' = clock + 1
    /\ fs' = [fs EXCEPT !.trucks = DeleteDoc(@, truck_id)]
    /\ last' = [op |-> "delete_truck", id |-> truck_id,
                ret |-> TRUE,
                pre |-> [trucks |-> DocDicts(fs.trucks)]]
    /\ UNCHANGED <<data, file, writes, incBase, incCount, mode, app_mode, authMode, peer, img, aggVars>>

get_truck_firestore(truck_id) ==
    /\ clock < MaxOps
    /\ mode # "local"
    /\ clock' = clock + 1
    /\ last' = [op |-> "get_truck", id |-> truck_id,
                ret |-> IF DocExists(fs.trucks, truck_id)
                        THEN [found |-> TRUE,
                              rec |-> DocDict(fs.trucks[DocIndex(fs.trucks, truck_id)])]
                        ELSE [found |-> FALSE, rec |-> NoRec],
                pre |-> [trucks |-> DocDicts(fs.trucks)]]
    /\ UNCHANGED <<data, file, writes, incBase, incCount, fsVars, aggVars>>

get_trucks_firestore(filters) ==
    /\ clock < MaxOps
    /\ mode # "local"
    /\ clock' = clock + 1
    /\ last' = [op |-> "get_trucks", arg |-> filters,
                ret |-> FirestoreTrucks(fs.trucks, filters),
                pre |-> [trucks |-> DocDicts(fs.trucks)]]
    /\ UNCHANGED <<data, file, writes, incBase, incCount, fsVars, aggVars>>

RemoteNext ==
    \/ \E truck_data \in TruckInputs : create_truck_firestore(truck_data)
    \/ \E truck_id \in DocNames, update_data \in Partials :
            update_truck_firestore(truck_id, update_data)
    \/ \E truck_id \in DocNames : delete_truck_firestore(truck_id)
    \/ \E truck_id \in DocNames : get_truck_firestore(truck_id)
    \/ \E filters \in RemoteFilterChoices : get_trucks_firestore(filters)

RemoteSpec == RemoteInit /\ [][RemoteNext]_vars

-----------------------------------------------------------------------------
(* Process start: config reads APP_MODE, then the module-level              *)
(* `db = DatabaseService()` and `auth_service = AuthService()` run, then    *)
(* requests are served.                                                     *)

\* a constructor that keeps the configured mode when initialization raises
ModeKeptOnFailure(configured, init_ok) == configured

\* self.mode = settings.APP_MODE, then `self.mode = "local"` in the except
\* clause of _init_firebase
ModeAfterInit(configured, init_ok) ==
    IF configured = "firebase" /\ ~init_ok THEN "local" ELSE configured

BootInit ==
    /\ data = NoData
    /\ file = SeedFile(<<TruckD>>)
    /\ writes = 0
    /\ clock = 0
    /\ last = NoCall
    /\ incBase = <<TruckD>>
    /\ incCount = ZeroCount
    /\ aggIn = [none |-> TRUE]
    /\ aggOut = [none |-> TRUE]
    /\ aggPc = "off"
    /\ mode = "unset"
    /\ fs = NoFirestore
    /\ app_mode \in {"local", "firebase"}
    /\ authMode = "unset"
    /\ peer = NoData
    /\ img = NoImage

\* DatabaseService.__init__; init_ok tells whether _init_firebase reaches
\* firestore.client() without an exception
DatabaseService(init_ok) ==
    /\ mode = "unset"
    /\ mode' = ModeAfterInit(app_mode, init_ok)
    /\ IF app_mode = "firebase" /\ init_ok
       THEN fs' \in {st \in RemoteStores : Len(st.trucks) = 2}
       ELSE fs' = NoFirestore
    /\ last' = [op |-> "__init__", configured |-> app_mode,
                raised |-> (app_mode = "firebase" /\ ~init_ok), ret |-> "constructed"]
    /\ UNCHANGED <<data, file, writes, clock, incBase, incCount, app_mode, authMode, peer, img, aggVars>>

\* AuthService.__init__
AuthService ==
    /\ mode # "unset"
    /\ authMode = "unset"
    /\ authMode' = app_mode
    /\ UNCHANGED <<dbVars, mode, fs, app_mode, peer, img, aggVars>>

\* POST /api/auth/login; verify_id_token needs the Firebase app that
\* _init_firebase creates and raises without it
api_auth_login(body) ==
    LET firebase_ok == fs # NoFirestore /\ body.token = "admin-id-token"
        verified == IF authMode = "local" THEN body.token = "dev-admin-token" ELSE firebase_ok
        reply == IF app_mode = "local"
                 THEN IF body.email = "admin@asapfoodtrailer.com" /\ body.password = "admin123"
                      THEN [success |-> TRUE, cookie |-> "dev-admin-token"]
                      ELSE [success |-> FALSE, cookie |-> ""]
                 ELSE IF verified
                      THEN [success |-> TRUE, cookie |-> body.token]
                      ELSE [success |-> FALSE, cookie |-> ""]
    IN  /\ authMode # "unset"
        /\ clock < MaxOps
        /\ clock' = clock + 1
        /\ last' = [op |-> "api_auth_login", arg |-> body, ret |-> reply,
                    branch |-> IF app_mode = "local" THEN "local" ELSE "firebase"]
        /\ UNCHANGED <<data, file, writes, incBase, incCount, fsVars, aggVars>>

BootNext ==
    \/ \E init_ok \in BOOLEAN : DatabaseService(init_ok)
    \/ AuthService
    \/ \E body \in {[email |-> "admin@asapfoodtrailer.com", password |-> "admin123", token |-> ""],
                    [email |-> "", password |-> "", token |-> "dev-admin-token"],
                    [email |-> "", password |-> "", token |-> "admin-id-token"]} :
            api_auth_login(body)
    \/ (authMode # "unset" /\ Next)
    \/ (authMode # "unset" /\ fs # NoFirestore /\ RemoteNext)

BootSpec == BootInit /\ [][BootNext]_vars

\* C21: construction never fails because remote initialization failed: with
\* APP_MODE firebase and a raising initialization the mode becomes local; once
\* set the mode never changes, and in local mode every operation works on the
\* flat-file cache and leaves the remote store alone.
C21_DemotedStaysLocal ==
    /\ [](last.op = "__init__" =>
            /\ last.ret = "constructed"
            /\ (last.configured = "firebase" /\ last.raised) => (mode = "local" /\ fs = NoFirestore))
    /\ [][mode # "unset" => mode' = mode]_vars
    /\ [][(mode = "local" /\ clock' # clock /\ last'.op # "api_auth_login") =>
            (data' # NoData /\ fs' = NoFirestore)]_vars

C21_Witness ==
    /\ app_mode = "firebase"
    /\ mode = "local"
    /\ last.op = "create_truck"
    /\ data # NoData
    /\ writes = 2

\* C29: the database service, the auth service and the login endpoint all use
\* the same backend mode, also after a failed remote initialization.
C29_OneMode ==
    (mode # "unset" /\ authMode # "unset") => (mode = authMode /\ mode = app_mode)

-----------------------------------------------------------------------------
(* Two worker processes in local mode on one data file. `data` is the cache *)
(* of the process that is running, `peer` the cache of the other one.       *)

TwoProcInit ==
    /\ data = NoData
    /\ file = SeedFile(<<TruckA, TruckB>>)
    /\ writes = 0
    /\ clock = 0
    /\ last = NoCall
    /\ incBase = <<TruckA, TruckB>>
    /\ incCount = ZeroCount
    /\ aggIn = [none |-> TRUE]
    /\ aggOut = [none |-> TRUE]
    /\ aggPc = "off"
    /\ mode = "local"
    /\ fs = NoFirestore
    /\ app_mode = "local"
    /\ authMode = "local"
    /\ peer = NoData
    /\ img = NoImage

\* the other process is scheduled: each DatabaseService instance has its own _data
switch ==
    /\ data' = peer
    /\ peer' = data
    /\ UNCHANGED <<file, writes, clock, last, incBase, incCount, aggVars,
                   mode, fs, app_mode, authMode, img>>

TwoProcNext ==
    \/ switch
    \/ get_truck(TruckA.id)
    \/ increment_views(TruckA.id)

TwoProcSpec == TwoProcInit /\ [][TwoProcNext]_vars

\* C22: with two local-mode processes on one data file each increment rewrites
\* the whole file from the caller's own cache, so the file is always the cache
\* of the last writer and its view count is above the initial one by at least 1
\* and at most the number of increments made; two increments, one per process,
\* can leave it only 1 above.
C22_LastWriterWins ==
    writes >= 1 =>
        /\ file = data \/ file = peer
        /\ file.trucks[1].views >= TruckA.views + 1
        /\ file.trucks[1].views <= TruckA.views + writes

C22_Witness ==
    /\ writes = 2
    /\ data # NoData /\ peer # NoData
    /\ data.trucks[1].views = TruckA.views + 1
    /\ peer.trucks[1].views = TruckA.views + 1
    /\ file.trucks[1].views = TruckA.views + 1

-----------------------------------------------------------------------------
(* Properties that compare the two backends *)

\* the vehicles as the facade returns them, whichever backend holds them
StoredVehicles == IF mode = "local" THEN data.trucks ELSE DocDicts(fs.trucks)

\* C16: in both modes delete_truck(id) returns true exactly when a vehicle with
\* that id existed before the call; after a true result get_truck(id) finds
\* nothing and every other vehicle is still present.
C16_DeleteReportsExistence ==
    last.op = "delete_truck" =>
        LET before == last.pre.trucks
            after == StoredVehicles
        IN  /\ last.ret = (\E i \in 1..Len(before) : before[i].id = last.id)
            /\ last.ret =>
                /\ \A j \in 1..Len(after) : after[j].id # last.id
                /\ \A i \in 1..Len(before) :
                        before[i].id # last.id => \E j \in 1..Len(after) : after[j] = before[i]

\* C17: for the same stored vehicles and the same filters get_trucks returns the
\* same set of records in both modes; in firebase mode every record returned for
\* a min_price, max_price or search filter satisfies that predicate.
C17_SameResultBothModes ==
    last.op = "get_trucks" =>
        LET local == GetTrucks(last.pre.trucks, last.arg)
        IN  {last.ret[i] : i \in 1..Len(last.ret)} = {local[i] : i \in 1..Len(local)}

-----------------------------------------------------------------------------
(* Calendar: datetime.date as a proleptic Gregorian day number, day 0 being *)
(* 2023-01-01; isoformat / strftime / fromisoformat convert between the    *)
(* day number and the year, month, day triple.                             *)

\* the years the day numbers cover
Years == 2023..2029

IsLeap(y) == y % 4 = 0 /\ (y % 100 # 0 \/ y % 400 = 0)

DaysInYear(y) == IF IsLeap(y) THEN 366 ELSE 365

DaysInMonth(y, m) ==
    CASE m \in {1, 3, 5, 7, 8, 10, 12} -> 31
      [] m \in {4, 6, 9, 11} -> 30
      [] m = 2 -> (IF IsLeap(y) THEN 29 ELSE 28)

RECURSIVE DaysBeforeYear(_)
DaysBeforeYear(y) == IF y <= 2023 THEN 0 ELSE DaysBeforeYear(y - 1) + DaysInYear(y - 1)

RECURSIVE DaysBeforeMonth(_, _)
DaysBeforeMonth(y, m) == IF m <= 1 THEN 0 ELSE DaysBeforeMonth(y, m - 1) + DaysInMonth(y, m - 1)

\* date(y, m, d) exists
ValidDate(ymd) ==
    /\ ymd[1] \in Years
    /\ ymd[2] \in 1..12
    /\ ymd[3] \in 1..DaysInMonth(ymd[1], ymd[2])

\* date.toordinal
ToOrdinal(ymd) == DaysBeforeYear(ymd[1]) + DaysBeforeMonth(ymd[1], ymd[2]) + ymd[3] - 1

\* date.fromordinal; date.isoformat() prints this triple as YYYY-MM-DD
FromOrdinal(n) ==
    LET y == CHOOSE yy \in Years : DaysBeforeYear(yy) <= n /\ n < DaysBeforeYear(yy) + DaysInYear(yy)
        r == n - DaysBeforeYear(y)
        m == CHOOSE mm \in 1..12 :
                DaysBeforeMonth(y, mm) <= r /\ r < DaysBeforeMonth(y, mm) + DaysInMonth(y, mm)
    IN  <<y, m, r - DaysBeforeMonth(y, m) + 1>>

\* date.weekday(): Monday is 0; day 0 (2023-01-01) is a Sunday
Weekday(n) == (n + 6) % 7

\* strftime('%m/%d') of the "Week MM/DD" label
MonthDay(n) == <<FromOrdinal(n)[2], FromOrdinal(n)[3]>>

-----------------------------------------------------------------------------
(* Analytics events *)

\* "timestamp" values: an ISO string (date triple and zone suffix), any other
\* string, or a value that is not a string
IsoStamp(ymd, zone) == [t |-> "iso", date |-> ymd, zone |-> zone]
TextStamp(s) == [t |-> "text", v |-> s]

\* isinstance(ts, str) and ts
IsNonEmptyString(ts) ==
    CASE ts.t = "iso" -> TRUE
      [] ts.t = "text" -> ts.v # ""
      [] OTHER -> FALSE

\* ts.replace("Z", "+00:00")
ReplaceZ(ts) == IF ts.t = "iso" /\ ts.zone = "Z" THEN [ts EXCEPT !.zone = "+00:00"] ELSE ts

\* datetime.fromisoformat accepts the string (otherwise ValueError)
IsoParses(ts) == ts.t = "iso" /\ ts.zone \in {"", "+00:00"} /\ ValidDate(ts.date)

\* datetime.fromisoformat(...).date()
EventDate(ts) == ToOrdinal(ts.date)

\* str.startswith
StartsWith(s, prefix) == Len(s) >= Len(prefix) /\ SubSeq(s, 1, Len(prefix)) = prefix

\* collections.Counter as its items in insertion order
CounterInc(c, key) ==
    IF \E i \in 1..Len(c) : c[i][1] = key
    THEN [i \in 1..Len(c) |-> IF c[i][1] = key THEN <<key, c[i][2] + 1>> ELSE c[i]]
    ELSE Append(c, <<key, 1>>)

\* d[key] = value on an insertion-ordered dict
DictSet(d, key, value) ==
    IF \E i \in 1..Len(d) : d[i][1] = key
    THEN [i \in 1..Len(d) |-> IF d[i][1] = key THEN <<key, value>> ELSE d[i]]
    ELSE Append(d, <<key, value>>)

HasKey(d, key) == \E i \in 1..Len(d) : d[i][1] = key

\* d.get(key, dflt) on an insertion-ordered dict
DictGet(d, key, dflt) ==
    IF HasKey(d, key) THEN d[CHOOSE i \in 1..Len(d) : d[i][1] = key][2] ELSE dflt

\* list(d.keys()), list(d.values())
KeysOf(d) == [i \in 1..Len(d) |-> d[i][1]]
ValuesOf(d) == [i \in 1..Len(d) |-> d[i][2]]

DailyCap == 30
WeekCount == 4
TopCount == 10

\* a daily loop that leaves today out: range(1, min(days, 30) + 1)
DailyOffsetsFromYesterday(days) == [i \in 1..Min(days, DailyCap) |-> i]

\* a daily loop without the cap: range(days)
DailyOffsetsUncapped(days) == [i \in 1..days |-> i - 1]

\* range(min(days, 30))
DailyOffsets(days) == [i \in 1..Min(days, DailyCap) |-> i - 1]

RECURSIVE InitDaily(_, _)
\* daily_views after the first loop: keys today, today-1, ... all 0
InitDaily(today, offsets) ==
    IF offsets = <<>> THEN <<>>
    ELSE DictSet(InitDaily(today, SubSeq(offsets, 1, Len(offsets) - 1)),
                 FromOrdinal(today - offsets[Len(offsets)]), 0)

\* week_start of week i
WeekStart(today, i) == today - (Weekday(today) + 7 * i)

RECURSIVE InitWeekly(_, _)
\* weekly_views after the second loop: weeks 0 .. n-1, all 0
InitWeekly(today, n) ==
    IF n = 0 THEN <<>>
    ELSE DictSet(InitWeekly(today, n - 1), MonthDay(WeekStart(today, n - 1)), 0)

\* event.get("timestamp", "")
StampOf(event) == Get(event, "timestamp", TextStamp(""))

\* a tally that leaves out the events whose source is the default
CountsAfterSkipDirect(acc, event) ==
    [acc EXCEPT
        !.devices = CounterInc(@, Get(event, "device_type", "unknown")),
        !.sources = IF Get(event, "source", "direct") = "direct" THEN @
                    ELSE CounterInc(@, Get(event, "source", "direct")),
        !.cities = CounterInc(@, Get(event, "location_city", "Unknown")),
        !.page_views = CounterInc(@, Get(event, "page_path", Chars("/")))]

\* the four Counter increments that end the loop body
CountsAfter(acc, event) ==
    [acc EXCEPT
        !.devices = CounterInc(@, Get(event, "device_type", "unknown")),
        !.sources = CounterInc(@, Get(event, "source", "direct")),
        !.cities = CounterInc(@, Get(event, "location_city", "Unknown")),
        !.page_views = CounterInc(@, Get(event, "page_path", Chars("/")))]

\* a weekly step that puts an event dated after today into the current week
WeeklyStepClampFuture(acc, event_date, today) ==
    LET week_index == Max(0, (today - event_date) \div 7)
        week_label == MonthDay(WeekStart(today, week_index))
    IN  IF week_index < WeekCount /\ HasKey(acc.weekly_views, week_label)
        THEN [acc EXCEPT !.weekly_views =
                DictSet(@, week_label, DictGet(@, week_label, 0) + 1)]
        ELSE acc

\* the "# Weekly" block of the loop body: days_ago // 7 floors, so an event
\* dated after today has a negative week_index and the label of a later Monday
WeeklyStep(acc, event_date, today) ==
    LET days_ago == today - event_date
        week_index == days_ago \div 7
        week_label == MonthDay(WeekStart(today, week_index))
    IN  IF week_index < WeekCount /\ HasKey(acc.weekly_views, week_label)
        THEN [acc EXCEPT !.weekly_views =
                DictSet(@, week_label, DictGet(@, week_label, 0) + 1)]
        ELSE acc

\* a loop body that tallies the counters before it parses the timestamp
EventStepCountFirst(acc, event, today) ==
    LET ts == StampOf(event)
    IN  IF ~IsNonEmptyString(ts) THEN acc
        ELSE IF ~IsoParses(ReplaceZ(ts)) THEN CountsAfter(acc, event)
        ELSE
            LET event_date == EventDate(ReplaceZ(ts))
                day_key == FromOrdinal(event_date)
                a1 == IF HasKey(acc.daily_views, day_key)
                      THEN [acc EXCEPT !.daily_views =
                                DictSet(@, day_key, DictGet(@, day_key, 0) + 1)]
                      ELSE acc
            IN  CountsAfter(WeeklyStep(a1, event_date, today), event)

\* the body of `for event in events`: skip on a missing, empty or non-string
\* timestamp and on ValueError, else daily bucket, weekly bucket, four counters
EventStep(acc, event, today) ==
    LET ts == StampOf(event)
    IN  IF ~IsNonEmptyString(ts) THEN acc
        ELSE IF ~IsoParses(ReplaceZ(ts)) THEN acc
        ELSE
            LET event_date == EventDate(ReplaceZ(ts))
                day_key == FromOrdinal(event_date)
                a1 == IF HasKey(acc.daily_views, day_key)
                      THEN [acc EXCEPT !.daily_views =
                                DictSet(@, day_key, DictGet(@, day_key, 0) + 1)]
                      ELSE acc
            IN  CountsAfter(WeeklyStep(a1, event_date, today), event)

RECURSIVE EventLoop(_, _, _)
EventLoop(acc, events, today) ==
    IF events = <<>> THEN acc
    ELSE EventStep(EventLoop(acc, SubSeq(events, 1, Len(events) - 1), today),
                   events[Len(events)], today)

\* stable insertion into a list of (key, count) items ascending by count
InsertItemAscending(sorted, x) ==
    LET n == Cardinality({i \in 1..Len(sorted) : sorted[i][2] <= x[2]})
    IN  SubSeq(sorted, 1, n) \o <<x>> \o SubSeq(sorted, n + 1, Len(sorted))

RECURSIVE SortItemsAscending(_)
SortItemsAscending(items) ==
    IF items = <<>> THEN <<>>
    ELSE InsertItemAscending(SortItemsAscending(SubSeq(items, 1, Len(items) - 1)),
                             items[Len(items)])

\* Counter.most_common(n): sorted(items, key=count, reverse=True)[:n]
MostCommon(c, n) == SliceTo(Reverse(SortItemsAscending(Reverse(c))), n)

\* round(x, 2) of the exact quotient num/den, as a number of hundredths, ties to even
RoundHundredths(num, den) ==
    LET scaled == 100 * num
        q == scaled \div den
        twice == 2 * (scaled - q * den)
    IN  IF twice > den \/ (twice = den /\ q % 2 = 1) THEN q + 1 ELSE q

\* a rate that reports an empty log as fully converted
ConversionRateEmptyFull(leads_count, total_views) ==
    IF total_views > 0 THEN RoundHundredths(leads_count * 100, total_views) ELSE 10000

\* round((leads_count / total_views * 100) if total_views > 0 else 0, 2), in hundredths
ConversionRate(leads_count, total_views) ==
    IF total_views > 0 THEN RoundHundredths(leads_count * 100, total_views) ELSE 0

ApiLeads == Chars("/api/leads")

\* a lead count taken only over the events whose timestamp parses
LeadsCountParsed(events) ==
    Cardinality({i \in 1..Len(events) :
        /\ IsoParses(StampOf(events[i]))
        /\ StartsWith(Get(events[i], "page_path", <<>>), ApiLeads)})

\* sum(1 for e in events if e.get("page_path", "").startswith("/api/leads"))
LeadsCount(events) ==
    Cardinality({i \in 1..Len(events) :
        StartsWith(Get(events[i], "page_path", <<>>), ApiLeads)})

aggregate_dashboard_data(events, days, today) ==
    LET start == [daily_views |-> InitDaily(today, DailyOffsets(days)),
                  weekly_views |-> InitWeekly(today, WeekCount),
                  devices |-> <<>>, sources |-> <<>>, cities |-> <<>>, page_views |-> <<>>]
        acc == EventLoop(start, events, today)
        total_views == Len(events)
    IN  [total_views |-> total_views,
         today_views |-> DictGet(acc.daily_views, FromOrdinal(today), 0),
         conversion_rate |-> ConversionRate(LeadsCount(events), total_views),
         daily_views |-> [labels |-> Reverse(KeysOf(acc.daily_views)),
                          data |-> Reverse(ValuesOf(acc.daily_views))],
         weekly_views |-> [labels |-> Reverse(KeysOf(acc.weekly_views)),
                           data |-> Reverse(ValuesOf(acc.weekly_views))],
         devices |-> [labels |-> KeysOf(acc.devices), data |-> ValuesOf(acc.devices)],
         sources |-> [labels |-> KeysOf(acc.sources), data |-> ValuesOf(acc.sources)],
         top_cities |-> [labels |-> KeysOf(MostCommon(acc.cities, TopCount)),
                         data |-> ValuesOf(MostCommon(acc.cities, TopCount))],
         top_pages |-> MostCommon(acc.page_views, TopCount)]

-----------------------------------------------------------------------------
(* The aggregator applied to bounded inputs *)

Fields(page, device, source, city) ==
    [page_path |-> Chars(page), device_type |-> device, source |-> source, location_city |-> city]

\* events as record_analytics stores them (timestamp `off` days before today), and
\* records of other origin: bare ones, and ones whose timestamp is not an ISO string
EventChoices(today) ==
    {DictUpdate(Fields("/api/leads/x", "mobile", "google", "Houston"),
                [timestamp |-> IsoStamp(FromOrdinal(today), "+00:00")]),
     [timestamp |-> IsoStamp(FromOrdinal(today), "Z")],
     DictUpdate(Fields("/catalog", "mobile", "direct", "Austin"),
                [timestamp |-> IsoStamp(FromOrdinal(today - 7), "Z")]),
     DictUpdate(Fields("/", "desktop", "direct", "Houston"),
                [timestamp |-> IsoStamp(FromOrdinal(today - 29), "+00:00")]),
     DictUpdate(Fields("/", "desktop", "facebook", "Houston"),
                [timestamp |-> IsoStamp(FromOrdinal(today - 30), "+00:00")]),
     DictUpdate(Fields("/catalog", "desktop", "referral", "Austin"),
                [timestamp |-> IsoStamp(FromOrdinal(today + 1), "+00:00")]),
     DictUpdate(Fields("/", "mobile", "google", "Austin"),
                [timestamp |-> IsoStamp(<<2029, 1, 1>>, "Z")]),
     DictUpdate(Fields("/admin", "desktop", "direct", "Houston"),
                [timestamp |-> IsoStamp(FromOrdinal(today - 6), "+00:00")]),
     DictUpdate(Fields("/api/leads/x", "tablet", "google", "Dallas"),
                [timestamp |-> TextStamp("not-a-date")]),
     DictUpdate(Fields("/catalog", "tablet", "bing", "Dallas"),
                [timestamp |-> IsoStamp(<<2024, 2, 30>>, "Z")]),
     DictUpdate(Fields("/", "tablet", "bing", "Dallas"), [timestamp |-> TextStamp("")]),
     DictUpdate(Fields("/", "tablet", "bing", "Dallas"), [timestamp |-> [t |-> "int", v |-> 20240301]]),
     Fields("/api/leads", "tablet", "bing", "Dallas")}

NoResult == [none |-> TRUE]

AggInit ==
    /\ data = NoData
    /\ file = NoFile
    /\ writes = 0
    /\ clock = 0
    /\ last = NoCall
    /\ incBase = <<>>
    /\ incCount = ZeroCount
    \* today: Monday 2024-01-01, and Tuesday 2024-02-27 to Sunday 2024-03-03
    /\ aggIn \in [events : {<<>>}, days : {-1, 0, 1, 7, DailyCap, MaxDays},
                  today : {ToOrdinal(<<2024, 1, 1>>)} \cup
                          {ToOrdinal(<<2024, 2, 27>>) + k : k \in 0..5}]
    /\ aggOut = NoResult
    /\ aggPc = "input"
    /\ mode = "local"
    /\ fs = NoFirestore
    /\ app_mode = "local"
    /\ authMode = "local"
    /\ peer = NoData
    /\ img = NoImage

\* one more event in the list that get_analytics hands to the aggregator
AddEvent(event) ==
    /\ aggPc = "input"
    /\ Len(aggIn.events) < MaxEvents
    /\ aggIn' = [aggIn EXCEPT !.events = Append(@, event)]
    /\ UNCHANGED <<dbVars, fsVars, aggOut, aggPc>>

Aggregate ==
    /\ aggPc = "input"
    /\ aggOut' = aggregate_dashboard_data(aggIn.events, aggIn.days, aggIn.today)
    /\ aggPc' = "done"
    /\ UNCHANGED <<dbVars, fsVars, aggIn>>

AggNext ==
    \/ \E event \in EventChoices(aggIn.today) : AddEvent(event)
    \/ Aggregate

AggSpec == AggInit /\ [][AggNext]_vars

-----------------------------------------------------------------------------
(* Properties of the aggregator, checked under AggSpec *)

\* the timestamp is missing, empty, not a string, or not an ISO date
Skipped(event) ==
    \/ "timestamp" \notin DOMAIN event
    \/ event.timestamp.t # "iso"
    \/ ~ValidDate(event.timestamp.date)

Counted(events) == {i \in 1..Len(events) : ~Skipped(events[i])}

Sum(seq) ==
    LET S[i \in 0..Len(seq)] == IF i = 0 THEN 0 ELSE S[i - 1] + seq[i]
    IN  S[Len(seq)]

AllZero(seq) == \A i \in 1..Len(seq) : seq[i] = 0

\* C7: an event whose timestamp is missing, empty, not a string or unparseable counts
\* in total_views and in nothing else; the other events are aggregated as if the
\* skipped ones were absent.
C7_SkippedCountOnlyInTotal ==
    aggPc = "done" =>
        LET ev == aggIn.events
            rest == SelectSeq(ev, LAMBDA e : ~Skipped(e))
            alone == aggregate_dashboard_data(rest, aggIn.days, aggIn.today)
        IN  /\ aggOut.total_views = Len(ev)
            /\ aggOut.today_views = alone.today_views
            /\ aggOut.daily_views = alone.daily_views
            /\ aggOut.weekly_views = alone.weekly_views
            /\ aggOut.devices = alone.devices
            /\ aggOut.sources = alone.sources
            /\ aggOut.top_cities = alone.top_cities
            /\ aggOut.top_pages = alone.top_pages
            /\ Sum(aggOut.devices.data) = Len(rest)
            /\ Sum(aggOut.sources.data) = Len(rest)
            /\ Sum(aggOut.top_cities.data) = Len(rest)
            /\ Sum(ValuesOf(aggOut.top_pages)) = Len(rest)
            /\ Sum(aggOut.daily_views.data) <= Len(rest)
            /\ Sum(aggOut.weekly_views.data) <= Len(rest)

C7_Witness ==
    /\ aggPc = "done"
    /\ aggIn.days = DailyCap
    /\ Len(aggIn.events) = 2
    /\ StampOf(aggIn.events[1]) = TextStamp("not-a-date")
    /\ ~Skipped(aggIn.events[2])
    /\ aggOut.total_views = 2
    /\ aggOut.devices.labels = <<"mobile">>

\* C8: with days >= 1 every event dated today adds one to today_views and one to
\* weekly bucket 0, the last entry of the weekly series; a single event dated today
\* with path /api/leads/x gives today_views = 1, total_views = 1, conversion_rate = 100.0.
C8_TodayCounts ==
    (aggPc = "done" /\ aggIn.days >= 1) =>
        LET ev == aggIn.events
            today == aggIn.today
            dated(i) == ToOrdinal(ev[i].timestamp.date)
            nToday == Cardinality({i \in Counted(ev) : dated(i) = today})
            nWeek0 == Cardinality({i \in Counted(ev) : today - dated(i) \in 0..6})
        IN  /\ aggOut.today_views = nToday
            /\ Len(aggOut.weekly_views.data) = WeekCount
            /\ aggOut.weekly_views.data[WeekCount] >= nWeek0
            /\ (\A i \in Counted(ev) : dated(i) <= today) =>
                    aggOut.weekly_views.data[WeekCount] = nWeek0
            /\ nWeek0 >= nToday
            /\ (Len(ev) = 1 /\ nToday = 1 /\ Get(ev[1], "page_path", <<>>) = Chars("/api/leads/x")) =>
                    /\ aggOut.today_views = 1
                    /\ aggOut.total_views = 1
                    /\ aggOut.conversion_rate = 10000

C8_Witness ==
    /\ aggPc = "done"
    /\ aggIn.days = 1
    /\ Len(aggIn.events) = 1
    /\ StampOf(aggIn.events[1]) = IsoStamp(FromOrdinal(aggIn.today), "+00:00")
    /\ Get(aggIn.events[1], "page_path", <<>>) = Chars("/api/leads/x")
    /\ aggOut.today_views = 1
    /\ aggOut.conversion_rate = 10000
    /\ aggOut.weekly_views.data = <<0, 0, 0, 1>>

DailyShape(out) ==
    LET labels == out.daily_views.labels
    IN  /\ Len(labels) = Min(aggIn.days, DailyCap)
        /\ Len(out.daily_views.data) = Len(labels)
        /\ \A i \in 1..(Len(labels) - 1) :
              /\ ValidDate(labels[i])
              /\ ToOrdinal(labels[i + 1]) = ToOrdinal(labels[i]) + 1
        /\ Len(labels) > 0
        /\ labels[Len(labels)] = FromOrdinal(aggIn.today)

\* C9 as stated: for every requested window and every event list the daily series has
\* min(days, 30) labels and as many values, the labels are consecutive ascending ISO
\* dates, and the last label is today's date.
C9_DailySeriesAnyDays == aggPc = "done" => DailyShape(aggOut)

\* C9 amended: the same for every requested window of at least one day.
C9_DailySeries == (aggPc = "done" /\ aggIn.days >= 1) => DailyShape(aggOut)

C9_Witness ==
    /\ aggPc = "done"
    /\ aggIn.days > DailyCap
    /\ Len(aggOut.daily_views.labels) = DailyCap
    /\ aggOut.daily_views.labels[1] = <<2024, 2, 1>>
    /\ aggOut.daily_views.labels[DailyCap] = <<2024, 3, 1>>

\* C10: on an empty event list total_views, today_views and conversion_rate are 0,
\* every daily and weekly bucket is 0 and the four breakdowns are empty.
C10_EmptyLog ==
    (aggPc = "done" /\ aggIn.events = <<>>) =>
        /\ aggOut.total_views = 0
        /\ aggOut.today_views = 0
        /\ aggOut.conversion_rate = 0
        /\ AllZero(aggOut.daily_views.data)
        /\ AllZero(aggOut.weekly_views.data)
        /\ Len(aggOut.daily_views.data) = Max(0, Min(aggIn.days, DailyCap))
        /\ Len(aggOut.weekly_views.data) = WeekCount
        /\ aggOut.devices = [labels |-> <<>>, data |-> <<>>]
        /\ aggOut.sources = [labels |-> <<>>, data |-> <<>>]
        /\ aggOut.top_cities = [labels |-> <<>>, data |-> <<>>]
        /\ aggOut.top_pages = <<>>

C10_Witness ==
    /\ aggPc = "done"
    /\ aggIn.events = <<>>
    /\ aggIn.days = DailyCap
    /\ Len(aggOut.daily_views.data) = DailyCap

\* positions of the input events whose page path begins with "/api/leads"
LeadEvents(events) ==
    {i \in 1..Len(events) :
        LET path == Get(events[i], "page_path", <<>>)
        IN  /\ Len(path) >= Len(ApiLeads)
            /\ \A k \in 1..Len(ApiLeads) : path[k] = ApiLeads[k]}

\* C11: conversion_rate is 100 * (events whose page path starts with "/api/leads")
\* / (all input events) rounded to two decimals, events with an unparseable
\* timestamp counted on both sides; it is 0 on an empty list and always within 0..100.
C11_ConversionRate ==
    aggPc = "done" =>
        LET n == Len(aggIn.events)
            leads == Cardinality(LeadEvents(aggIn.events))
            rate == aggOut.conversion_rate
            diff == rate * n - 10000 * leads
        IN  /\ rate >= 0 /\ rate <= 10000
            /\ n = 0 => rate = 0
            /\ n > 0 => (2 * diff <= n /\ -2 * diff <= n)

C11_Witness ==
    /\ aggPc = "done"
    /\ Len(aggIn.events) = 2
    /\ \E i \in LeadEvents(aggIn.events) : Skipped(aggIn.events[i])
    /\ aggOut.conversion_rate = 5000

\* (today - event_date).days // 7 of the event at position i of the input
WeekIndexAt(i) == (aggIn.today - ToOrdinal(aggIn.events[i].timestamp.date)) \div 7

\* value of weekly bucket j (0 = the current week) in the reported series
WeeklyValue(j) == aggOut.weekly_views.data[WeekCount - j]

\* the daily series counts, for each of the last min(days, 30) days, exactly
\* the parseable events of that date, and no other event is counted in it
DailyExact ==
    LET ev == aggIn.events
        n == Max(0, Min(aggIn.days, DailyCap))
        ago(i) == aggIn.today - ToOrdinal(ev[i].timestamp.date)
    IN  /\ Len(aggOut.daily_views.data) = n
        /\ \A off \in 0..(n - 1) :
                aggOut.daily_views.data[n - off] =
                    Cardinality({i \in Counted(ev) : ago(i) = off})
        /\ Sum(aggOut.daily_views.data) =
                Cardinality({i \in Counted(ev) : ago(i) \in 0..(n - 1)})

\* C25 as stated: a parseable event increments its date's daily bucket exactly
\* when the date is one of the last min(days, 30) days, and exactly one weekly
\* bucket, the one with index days_ago // 7, exactly when days_ago // 7 < 4,
\* events dated after today included.
C25_WeeklyIncludesFuture ==
    aggPc = "done" =>
        /\ DailyExact
        /\ \A j \in 0..(WeekCount - 1) :
                WeeklyValue(j) = Cardinality({i \in Counted(aggIn.events) : WeekIndexAt(i) = j})
        /\ Sum(aggOut.weekly_views.data) =
                Cardinality({i \in Counted(aggIn.events) : WeekIndexAt(i) < WeekCount})

\* C25 amended: the daily part as stated; a parseable event increments weekly
\* bucket days_ago // 7 exactly when 0 <= days_ago // 7 < 4; an event dated
\* after today increments no weekly bucket, unless the later Monday computed
\* for it has the month and day of one of the four bucket Mondays, and then
\* it increments that bucket.
C25_WeeklyBuckets ==
    aggPc = "done" =>
        LET label(w) == MonthDay(WeekStart(aggIn.today, w))
            lands(i, j) == \/ WeekIndexAt(i) = j
                           \/ WeekIndexAt(i) < 0 /\ label(WeekIndexAt(i)) = label(j)
        IN  /\ DailyExact
            /\ \A j \in 0..(WeekCount - 1) :
                    WeeklyValue(j) = Cardinality({i \in Counted(aggIn.events) : lands(i, j)})
            /\ Sum(aggOut.weekly_views.data) =
                    Cardinality({i \in Counted(aggIn.events) :
                                    \E j \in 0..(WeekCount - 1) : lands(i, j)})

\* today is Monday 2024-01-01: the event of the next day is in no weekly bucket,
\* the event of Monday 2029-01-01 is in the bucket labelled 01/01
C25_Witness ==
    /\ aggPc = "done"
    /\ aggIn.today = ToOrdinal(<<2024, 1, 1>>)
    /\ aggIn.days = 7
    /\ Len(aggIn.events) = 2
    /\ StampOf(aggIn.events[1]) = IsoStamp(<<2024, 1, 2>>, "+00:00")
    /\ StampOf(aggIn.events[2]) = IsoStamp(<<2029, 1, 1>>, "Z")
    /\ WeekIndexAt(1) = -1
    /\ aggOut.weekly_views.data = <<0, 0, 0, 1>>
    /\ AllZero(aggOut.daily_views.data)

\* Monday of weekly bucket j as a day number
BucketMonday(j) == aggIn.today - (Weekday(aggIn.today) + 7 * j)

\* C26: the four weekly buckets carry the labels of the Mondays
\* today - (today.weekday() + 7*N), N = 0..3, and every event counted in the
\* bucket of Monday S is dated within S .. S + 6, whatever weekday today is:
\* no bucket holds more events than its 7-day block has.
C26_BucketsAreMondayWeeks ==
    aggPc = "done" =>
        /\ aggOut.weekly_views.labels =
                [k \in 1..WeekCount |-> MonthDay(BucketMonday(WeekCount - k))]
        /\ \A j \in 0..(WeekCount - 1) :
                /\ Weekday(BucketMonday(j)) = 0
                /\ WeeklyValue(j) <=
                        Cardinality({i \in Counted(aggIn.events) :
                            ToOrdinal(aggIn.events[i].timestamp.date) - BucketMonday(j) \in 0..6})

\* number of parseable events whose field has this value
Tally(field, dflt, value) ==
    Cardinality({i \in Counted(aggIn.events) : Get(aggIn.events[i], field, dflt) = value})

\* C27: the device, source, city and page counters count every event with a
\* parseable timestamp once, whatever its date; the device values and the
\* source values each sum to the number of parseable events, which is at most
\* total_views, and the daily values and the weekly values each sum to at most
\* that number.
C27_CountersIgnoreDates ==
    aggPc = "done" =>
        LET n == Cardinality(Counted(aggIn.events))
        IN  /\ \A k \in 1..Len(aggOut.devices.labels) :
                    aggOut.devices.data[k] = Tally("device_type", "unknown", aggOut.devices.labels[k])
            /\ \A k \in 1..Len(aggOut.sources.labels) :
                    aggOut.sources.data[k] = Tally("source", "direct", aggOut.sources.labels[k])
            /\ \A k \in 1..Len(aggOut.top_cities.labels) :
                    aggOut.top_cities.data[k] =
                        Tally("location_city", "Unknown", aggOut.top_cities.labels[k])
            /\ \A k \in 1..Len(aggOut.top_pages) :
                    aggOut.top_pages[k][2] = Tally("page_path", Chars("/"), aggOut.top_pages[k][1])
            /\ Sum(aggOut.devices.data) = n
            /\ Sum(aggOut.sources.data) = n
            /\ Sum(aggOut.top_cities.data) = n
            /\ Sum(ValuesOf(aggOut.top_pages)) = n
            /\ n <= aggOut.total_views
            /\ Sum(aggOut.daily_views.data) <= n
            /\ Sum(aggOut.weekly_views.data) <= n

\* one event of the day after today, one of 30 days ago, both outside every bucket
C27_Witness ==
    /\ aggPc = "done"
    /\ aggIn.days = DailyCap
    /\ Len(aggIn.events) = 2
    /\ StampOf(aggIn.events[1]) = IsoStamp(FromOrdinal(aggIn.today + 1), "+00:00")
    /\ StampOf(aggIn.events[2]) = IsoStamp(FromOrdinal(aggIn.today - 30), "+00:00")
    /\ aggOut.devices = [labels |-> <<"desktop">>, data |-> <<2>>]
    /\ aggOut.sources.data = <<1, 1>>
    /\ AllZero(aggOut.daily_views.data)
    /\ AllZero(aggOut.weekly_views.data)

-----------------------------------------------------------------------------
(* The page-view middleware of main.py in front of the local-mode facade    *)

MaxRequests == 2    \* requests served in one behaviour

\* request.url.path and the user-agent and referer headers, a header being
\* present with a value or not sent
Requests ==
    LET Sent(h) == [present |-> TRUE, v |-> Chars(h)]
        NoHeader == [present |-> FALSE, v |-> <<>>]
    IN  {[path |-> Chars("/"), user_agent |-> Sent("iOS Mobile"), referer |-> Sent("Google")],
         [path |-> Chars("/"), user_agent |-> NoHeader, referer |-> NoHeader],
         [path |-> Chars("/admin"), user_agent |-> Sent("mobile"), referer |-> Sent("blog")],
         [path |-> Chars("/admin"), user_agent |-> Sent("mobile"), referer |-> Sent("facebook")],
         [path |-> Chars("/api/leads"), user_agent |-> Sent("iOS Mobile"), referer |-> NoHeader],
         [path |-> Chars("/apiary"), user_agent |-> Sent("mobile"), referer |-> NoHeader],
         [path |-> Chars("/assets/a"), user_agent |-> Sent("mobile"), referer |-> NoHeader],
         [path |-> Chars("/uploads/a"), user_agent |-> Sent("mobile"), referer |-> NoHeader],
         [path |-> Chars("/favicon.ico"), user_agent |-> Sent("mobile"), referer |-> NoHeader]}

\* headers.get(name, default)
Header(h, dflt) == IF h.present THEN h.v ELSE dflt

\* "mobile" if "Mobile" in user_agent else "desktop"
Device(user_agent) ==
    IF Contains(Header(user_agent, <<>>), Chars("Mobile")) THEN "mobile" ELSE "desktop"

\* the source ladder over the referer header
Source(referer) ==
    LET source == Header(referer, Chars("direct"))
    IN  IF Contains(Lower(source), Chars("google")) THEN "google"
        ELSE IF Contains(Lower(source), Chars("facebook")) THEN "facebook"
        ELSE IF source # Chars("direct") THEN "referral"
        ELSE "direct"

\* a condition that lets the API routes through
TrackedWithApi(path, status_code) ==
    /\ ~StartsWith(path, Chars("/assets"))
    /\ ~StartsWith(path, Chars("/uploads"))
    /\ ~StartsWith(path, Chars("/favicon"))
    /\ status_code = 200

\* the condition under which the middleware records a page view
Tracked(path, status_code) ==
    /\ ~StartsWith(path, Chars("/assets"))
    /\ ~StartsWith(path, Chars("/uploads"))
    /\ ~StartsWith(path, Chars("/api"))
    /\ ~StartsWith(path, Chars("/favicon"))
    /\ status_code = 200

\* outcomes of db.record_analytics: it returns, or an OSError leaves open() or
\* json.dump, in _load_local_data ("load") or in _save_local_data ("save")
Faults ==
    {[raised |-> FALSE, class |-> "", base |-> "", at |-> ""],
     [raised |-> TRUE, class |-> "OSError", base |-> "Exception", at |-> "load"],
     [raised |-> TRUE, class |-> "OSError", base |-> "Exception", at |-> "save"]}

\* a middleware without the handler: every exception leaves it
CaughtNone(fault) == FALSE

\* except Exception: pass
Caught(fault) == fault.base = "Exception"

track_analytics(request, response, fault) ==
    LET path == request.path
        tracked == Tracked(path, response.status_code)
        event == StampEvent([page_path |-> path,
                             device_type |-> Device(request.user_agent),
                             location_city |-> "Houston",
                             source |-> Source(request.referer)], clock)
        d2 == StoreEvent(LoadLocalData, event)
        raised == tracked /\ fault.raised
    IN  /\ clock < MaxRequests
        /\ fault.at = "load" => (data = NoData /\ file # NoFile)
        /\ clock' = clock + 1
        /\ IF ~tracked \/ fault.at = "load"
           THEN UNCHANGED <<data, file, writes>>
           ELSE IF fault.at = "save"
           THEN /\ data' = d2
                \* a failed json.dump leaves the file as it was or half-written
                /\ file' \in {file, [torn |-> TRUE]}
                /\ UNCHANGED writes
           ELSE /\ data' = d2
                /\ file' = SaveLocalData(d2)
                /\ writes' = writes + 1
        /\ last' = [op |-> "track_analytics", request |-> request, response |-> response,
                    fault |-> fault, tracked |-> tracked, raised |-> raised,
                    \* an exception that leaves the middleware becomes a 500 answer
                    ret |-> IF raised /\ ~Caught(fault)
                            THEN [status_code |-> 500, body |-> "Internal Server Error"]
                            ELSE response,
                    pre |-> data, preFile |-> file, preWrites |-> writes]
        /\ UNCHANGED <<incBase, incCount, aggVars, fsVars>>

WebNext ==
    \* the route handler behind call_next answers 200 or 404
    \E request \in Requests, fault \in Faults,
       response \in {[status_code |-> 200, body |-> "page"],
                     [status_code |-> 404, body |-> "not found"]} :
        track_analytics(request, response, fault)

WebSpec == Init /\ [][WebNext]_vars

\* C20: whenever db.record_analytics raises, the middleware still returns the
\* response that the route handler produced, unchanged.
C20_AnalyticsFailureIsSilent ==
    (last.op = "track_analytics" /\ last.raised) => last.ret = last.response

C20_Witness ==
    /\ last.op = "track_analytics"
    /\ last.raised
    /\ last.fault.at = "save"
    /\ last.ret = [status_code |-> 200, body |-> "page"]
    /\ last.pre # NoData

\* the path begins with the characters of s
Begins(path, s) ==
    /\ Len(path) >= Len(Chars(s))
    /\ \A k \in 1..Len(Chars(s)) : path[k] = Chars(s)[k]

\* C30: the middleware records an event only for a response with status 200
\* whose path does not begin with /assets, /uploads, /api or /favicon; so no
\* event of the log has a page path beginning with "/api/leads", and the
\* aggregator reports conversion_rate = 0 on a log that only the middleware
\* has written, whatever was requested.
C30_MiddlewareLogsNoLeads ==
    /\ last.op = "track_analytics" =>
            LET path == last.request.path
                eligible == /\ last.response.status_code = 200
                            /\ \A s \in {"/assets", "/uploads", "/api", "/favicon"} :
                                    ~Begins(path, s)
            IN  ~eligible => (data = last.pre /\ file = last.preFile)
    /\ data # NoData =>
            /\ \A i \in 1..Len(data.analytics) :
                    /\ ~Begins(data.analytics[i].page_path, "/api/leads")
                    /\ ~Begins(data.analytics[i].page_path, "/api")
            /\ \A today \in {ToOrdinal(<<2024, 3, 3>>), ToOrdinal(<<2024, 3, 31>>)} :
                    aggregate_dashboard_data(data.analytics, 7, today).conversion_rate = 0

\* a page view was recorded, then a lead was submitted: the log has no trace of it
C30_Witness ==
    /\ last.op = "track_analytics"
    /\ last.request.path = Chars("/api/leads")
    /\ last.response.status_code = 200
    /\ data # NoData
    /\ data = last.pre
    /\ writes = 1
    /\ Len(data.analytics) = 2
    /\ aggregate_dashboard_data(data.analytics, 7, ToOrdinal(<<2024, 3, 3>>)).total_views = 2

-----------------------------------------------------------------------------
(* ImageProcessor (services/image_processor.py) and the image loop of       *)
(* POST /api/trucks, which keeps one URL of each result.                    *)

\* _upload_to_cloudinary: "" when the cloud is off, on any exception and on a
\* missing or empty secure_url
UploadToCloudinary(use_cloud, outcome) ==
    IF ~use_cloud \/ outcome = "raise" THEN "" ELSE outcome

\* a cloud block that returns whatever its loop collected
CloudBranchPartial(pil, uploads, fault) ==
    LET SizeNames == <<"thumb", "medium", "large">>
        url(i) == UploadToCloudinary(TRUE, uploads[i])
        n == Cardinality({k \in 1..3 : \A i \in 1..k : url(i) # ""})
    IN  IF pil
        THEN [returned |-> ~(fault = 1 \/ (fault \in 2..4 /\ fault - 1 <= n + 1)),
              result |-> [name \in {SizeNames[i] : i \in 1..n} |->
                            url(CHOOSE i \in 1..3 : SizeNames[i] = name)]]
        ELSE [returned |-> url(1) # "",
              result |-> [original |-> url(1), thumb |-> url(1),
                          medium |-> url(1), large |-> url(1)]]

\* the `if self.use_cloud:` block of process_image. With Pillow, a PIL call
\* that raises (fault 1 = Image.open, 2..4 = the save of a size, 5 = the save
\* of the original) is caught; the loop breaks at the first empty URL; the
\* block returns only with the three sizes and the original uploaded.
\* Without Pillow: one raw upload, returned when its URL is non-empty.
CloudBranch(pil, uploads, fault) ==
    LET SizeNames == <<"thumb", "medium", "large">>
        url(i) == UploadToCloudinary(TRUE, uploads[i])
        n == Cardinality({k \in 1..3 : \A i \in 1..k : url(i) # ""})
        raised == \/ fault = 1
                  \/ fault \in 2..4 /\ fault - 1 <= n + 1
                  \/ fault = 5 /\ n = 3
    IN  IF pil
        THEN [returned |-> ~raised /\ n = 3 /\ url(4) # "",
              result |-> [name \in {SizeNames[i] : i \in 1..3} \cup {"original"} |->
                            IF name = "original" THEN url(4)
                            ELSE url(CHOOSE i \in 1..3 : SizeNames[i] = name)]]
        ELSE [returned |-> url(1) # "",
              result |-> [original |-> url(1), thumb |-> url(1),
                          medium |-> url(1), large |-> url(1)]]

\* process_image: the cloud block, then the local Pillow block (a PIL call
\* that raises is caught), then the raw copy of the upload; open() or write()
\* failing in the raw copy leaves process_image by an exception
process_image(use_cloud, pil, uploads, cloud_fault, local_fault, raw_fault) ==
    LET cloud == CloudBranch(pil, uploads, cloud_fault)
    IN  IF use_cloud /\ cloud.returned
        THEN [returned |-> TRUE, branch |-> "cloud", result |-> cloud.result]
        ELSE IF pil /\ local_fault = 0
        THEN [returned |-> TRUE, branch |-> "local",
              result |-> [thumb |-> "/uploads/u_thumb.webp", medium |-> "/uploads/u_medium.webp",
                          large |-> "/uploads/u_large.webp",
                          original |-> "/uploads/u_original.webp"]]
        ELSE IF raw_fault
        THEN [returned |-> FALSE, branch |-> "raw", result |-> [error |-> "OSError"]]
        ELSE [returned |-> TRUE, branch |-> "raw",
              result |-> [original |-> "/uploads/u.jpg", thumb |-> "/uploads/u.jpg",
                          medium |-> "/uploads/u.jpg", large |-> "/uploads/u.jpg"]]

\* PIL_AVAILABLE and CLOUDINARY_AVAILABLE are fixed when the module is imported
ImgInit ==
    /\ data = NoData
    /\ file = NoFile
    /\ writes = 0
    /\ clock = 0
    /\ last = NoCall
    /\ incBase = <<>>
    /\ incCount = ZeroCount
    /\ aggIn = [none |-> TRUE]
    /\ aggOut = [none |-> TRUE]
    /\ aggPc = "off"
    /\ mode = "local"
    /\ fs = NoFirestore
    /\ app_mode = "local"
    /\ authMode = "local"
    /\ peer = NoData
    /\ img \in [use_cloud : BOOLEAN, pil : BOOLEAN, call : {NoCall}]

\* process_upload as the image loop of api_create_truck calls it: an upload
\* that fails validate_image raises ValueError, else process_image runs and
\* the loop keeps result.get("large", result.get("original", "")). The
\* processor keeps nothing from one upload to the next: one upload is followed.
process_upload(valid, uploads, cloud_fault, local_fault, raw_fault) ==
    LET out == IF valid
               THEN process_image(img.use_cloud, img.pil, uploads,
                                  cloud_fault, local_fault, raw_fault)
               ELSE [returned |-> FALSE, branch |-> "invalid",
                     result |-> [error |-> "ValueError"]]
    IN  /\ img.call = NoCall
        /\ img' = [img EXCEPT !.call =
                    [op |-> "process_upload", uploads |-> uploads,
                     cloud_fault |-> cloud_fault, local_fault |-> local_fault,
                     out |-> out,
                     url |-> IF out.returned
                             THEN Get(out.result, "large", Get(out.result, "original", ""))
                             ELSE ""]]
        /\ UNCHANGED <<dbVars, aggVars, mode, fs, app_mode, authMode, peer>>

\* each cloudinary.uploader.upload call raises, answers without a secure_url,
\* or answers with one
ImgNext ==
    \E valid, raw_fault \in BOOLEAN, uploads \in [1..4 -> {"raise", "", "https://cdn/a.webp"}],
       cloud_fault, local_fault \in 0..5 :
        process_upload(valid, uploads, cloud_fault, local_fault, raw_fault)

ImgSpec == ImgInit /\ [][ImgNext]_vars

\* C24: whatever Pillow, the cloud configuration and each upload do, a
\* process_image that returns gives a mapping with exactly the keys original,
\* thumb, medium and large, each a non-empty URL, so the URL the vehicle form
\* keeps is non-empty; the mapping is all cloud URLs (only when every upload
\* it needs succeeded) or all local ones, never a mix or a part.
C24_CompleteMapping ==
    (img.call # NoCall /\ img.call.out.returned) =>
        LET out == img.call.out
            ok(i) == img.call.uploads[i] \notin {"raise", ""}
        IN  /\ DOMAIN out.result = {"original", "thumb", "medium", "large"}
            /\ \A k \in DOMAIN out.result : out.result[k] # ""
            /\ img.call.url # ""
            /\ img.call.url = out.result["large"]
            /\ out.branch = "cloud" =>
                    /\ img.use_cloud
                    /\ \A k \in DOMAIN out.result : out.result[k] = "https://cdn/a.webp"
                    /\ IF img.pil THEN \A i \in 1..4 : ok(i) ELSE ok(1)
            /\ out.branch # "cloud" =>
                    \A k \in DOMAIN out.result : out.result[k] # "https://cdn/a.webp"

\* three sizes uploaded, the upload of the original failed: local files are returned
C24_Witness ==
    /\ img.call # NoCall
    /\ img.use_cloud /\ img.pil
    /\ img.call.cloud_fault = 0
    /\ \A i \in 1..3 : img.call.uploads[i] = "https://cdn/a.webp"
    /\ img.call.uploads[4] = "raise"
    /\ img.call.out.returned
    /\ img.call.out.branch = "local"
    /\ img.call.url = "/uploads/u_large.webp"

-----------------------------------------------------------------------------
(* Leads in both modes and the lead list of the admin dashboard (main.py)   *)

RecentLeads == 10

\* a query that yields the oldest lead first
OrderByDateAsc(docs) ==
    LET Less(a, b) ==
            \/ a[1] < b[1]
            \/ a[1] = b[1] /\ a[2] < b[2]
            \/ a[1] = b[1] /\ a[2] = b[2] /\ a[3] < b[3]
        dated == SelectSeq(docs, LAMBDA x : "date" \in DOMAIN x.fields)
        After(x, y) ==
            \/ Less(x.fields.date.date, y.fields.date.date)
            \/ x.fields.date.date = y.fields.date.date /\ x.name < y.name
    IN  [k \in 1..Len(dated) |->
            dated[CHOOSE i \in 1..Len(dated) :
                    Cardinality({j \in 1..Len(dated) : After(dated[j], dated[i])}) = k - 1]]

\* order_by("date", direction="DESCENDING").stream(): the documents that have
\* a date field, the greatest date string first (timestamps of one format
\* compare as year, month, day), equal dates by document name, descending
OrderByDateDesc(docs) ==
    LET Less(a, b) ==
            \/ a[1] < b[1]
            \/ a[1] = b[1] /\ a[2] < b[2]
            \/ a[1] = b[1] /\ a[2] = b[2] /\ a[3] < b[3]
        dated == SelectSeq(docs, LAMBDA x : "date" \in DOMAIN x.fields)
        Before(x, y) ==
            \/ Less(y.fields.date.date, x.fields.date.date)
            \/ x.fields.date.date = y.fields.date.date /\ x.name > y.name
    IN  [k \in 1..Len(dated) |->
            dated[CHOOSE i \in 1..Len(dated) :
                    Cardinality({j \in 1..Len(dated) : Before(dated[j], dated[i])}) = k - 1]]

\* get_leads: the cached list as it is, or the collection newest first
get_leads ==
    IF mode = "local"
    THEN Get(LoadLocalData, "leads", <<>>)
    ELSE DocDicts(OrderByDateDesc(fs.leads))

\* stores that hold one lead fewer than the dashboard shows, as many, or one
\* more, each created by create_lead on an earlier day
LeadInit ==
    LET leads(n) ==
            [i \in 1..n |->
                [id |-> 100 + i, customer_name |-> "Ann", email |-> "ann@example.com",
                 phone |-> "", truck_id |-> 1, message |-> "quote",
                 date |-> IsoStamp(<<2024, 1, i>>, "+00:00")]]
        counts == {RecentLeads - 1, RecentLeads, RecentLeads + 1}
    IN  /\ data = NoData
        /\ mode \in {"local", "firebase"}
        /\ \E n \in counts :
            IF mode = "local"
            THEN /\ file = [trucks |-> <<TruckA>>, analytics |-> <<>>, leads |-> leads(n),
                            testimonials |-> <<>>]
                 /\ fs = NoFirestore
            ELSE /\ file = NoFile
                 /\ fs = [trucks |-> <<>>, analytics |-> <<>>,
                          leads |-> [i \in 1..n |-> [name |-> leads(n)[i].id,
                                                     fields |-> leads(n)[i]]]]
        /\ writes = 0
        /\ clock = 0
        /\ last = NoCall
        /\ incBase = <<>>
        /\ incCount = ZeroCount
        /\ aggIn = [none |-> TRUE]
        /\ aggOut = [none |-> TRUE]
        /\ aggPc = "off"
        /\ app_mode = mode
        /\ authMode = mode
        /\ peer = NoData
        /\ img = NoImage

\* the firebase branch of create_lead
create_lead_firestore(lead_data) ==
    LET lead == DictUpdate(lead_data, [id |-> Uuid4(clock), date |-> NowIso(clock)])
    IN  /\ clock < MaxOps
        /\ mode # "local"
        /\ clock' = clock + 1
        /\ fs' = [fs EXCEPT !.leads = SetDoc(@, lead.id, lead)]
        /\ last' = [op |-> "create_lead", arg |-> lead_data, ret |-> lead]
        /\ UNCHANGED <<data, file, writes, incBase, incCount, mode, app_mode, authMode, peer, img, aggVars>>

\* GET /admin/dashboard: ctx["recent_leads"] = db.get_leads()[:10]; the other
\* entries of the context are reads as well
admin_dashboard ==
    /\ clock < MaxOps
    /\ clock' = clock + 1
    /\ data' = (IF mode = "local" THEN LoadLocalData ELSE data)
    /\ last' = [op |-> "admin_dashboard", recent_leads |-> SliceTo(get_leads, RecentLeads)]
    /\ UNCHANGED <<file, writes, incBase, incCount, fsVars, aggVars>>

LeadNext ==
    \/ \E lead_data \in LeadInputs : create_lead(lead_data)
    \/ \E lead_data \in LeadInputs : create_lead_firestore(lead_data)
    \/ admin_dashboard

LeadSpec == LeadInit /\ [][LeadNext]_vars

\* the leads the store holds, in no particular order
StoredLeads ==
    IF mode = "local"
    THEN {data.leads[i] : i \in 1..Len(data.leads)}
    ELSE {DocDict(fs.leads[i]) : i \in 1..Len(fs.leads)}

\* C28: recent_leads of the admin dashboard is the first ten entries of
\* get_leads. In local mode these are the stored leads in the order they were
\* appended, so with more than ten leads they are the ten oldest and the
\* newest lead is not among them; in remote mode they are the ten newest,
\* newest first.
C28_RecentLeads ==
    last.op = "admin_dashboard" =>
        LET recent == last.recent_leads
            shown == {recent[i] : i \in 1..Len(recent)}
            day(lead) == ToOrdinal(lead.date.date)
            newest == CHOOSE x \in StoredLeads : \A y \in StoredLeads : day(y) <= day(x)
        IN  /\ Len(recent) = Min(RecentLeads, Cardinality(StoredLeads))
            /\ Cardinality(shown) = Len(recent)
            /\ shown \subseteq StoredLeads
            /\ IF mode = "local"
               THEN /\ recent = SliceTo(data.leads, RecentLeads)
                    /\ \A i, j \in 1..Len(recent) : i < j => day(recent[i]) < day(recent[j])
                    /\ \A x \in shown, y \in StoredLeads \ shown : day(x) < day(y)
                    /\ Cardinality(StoredLeads) > RecentLeads => newest \notin shown
               ELSE /\ \A i, j \in 1..Len(recent) : i < j => day(recent[i]) > day(recent[j])
                    /\ \A x \in shown, y \in StoredLeads \ shown : day(x) > day(y)
                    /\ recent[1] = newest

\* local mode, eleven leads seeded and one created in this run: the dashboard
\* shows the ten seeded first and not the new one
C28_Witness ==
    /\ last.op = "admin_dashboard"
    /\ mode = "local"
    /\ Cardinality(StoredLeads) = RecentLeads + 2
    /\ Len(last.recent_leads) = RecentLeads
    /\ last.recent_leads[1].id = 101
    /\ \E x \in StoredLeads : x.id = Uuid4(0) /\ \A i \in 1..RecentLeads : last.recent_leads[i] # x

====
